---- MODULE Spec2Model ----
(***************************************************************************)
(* A model of scuttle-db: the slotted page (src/src/page.rs), the buffer   *)
(* pool (src/src/buffer_manager.rs), the row codec                         *)
(* (src/src/db/table/schema.rs, src/src/db/null_bitmap.rs) and the         *)
(* database facade (src/src/db/database.rs).                               *)
(*                                                                         *)
(* Byte arrays are sequences of integers 0..255.  A Rust index i of an     *)
(* array is position i+1 of the sequence.  A panic of the program is a     *)
(* result of kind "panic"; after it the process is gone and no further     *)
(* operation runs.                                                         *)
(***************************************************************************)
EXTENDS Integers, Sequences, FiniteSets, TLC

VARIABLES
    page,          \* PageSpec: the Page under test
    added,         \* PageSpec: history, the index in Payloads of each item stored, by item id
    pres,          \* PageSpec: the last page operation and what it returned
    reconstructed, \* PageSpec: what Page::from_bytes made of the last to_bytes
    cschema,       \* CodecSpec: the columns of the schema
    crow,          \* CodecSpec: the values of the row
    cpc,           \* CodecSpec: how far the row has come
    cvalid,        \* CodecSpec: what the insert-time validator said of the row
    cenc,          \* CodecSpec: what encode_row returned
    cdec,          \* CodecSpec: what decode_row returned
    tables,        \* DbSpec: Database.tables, the catalog
    buffer_pool,   \* DbSpec: BufferManager.buffer_pool
    files,         \* DbSpec: the table files under ./db
    inserted,      \* DbSpec: history, per table the index in DbRows of each row insert_row stored
    created,       \* DbSpec: history, per table the number of create_table calls
    dres,          \* DbSpec: the last facade call and what it returned
    eexpr,         \* EvalSpec: the expression under evaluation
    erow,          \* EvalSpec: the values of the row it is evaluated on
    eout,          \* EvalSpec: the last evaluation and what it returned
    overflow_checks, \* EvalSpec: the build panics on integer overflow (debug profile)
    ptokens,       \* ParseSpec: the token stream of the lexer
    pout,          \* ParseSpec: what the parser made of the token stream
    aexpr,         \* AnalyzeSpec: the expression under analysis
    aout,          \* AnalyzeSpec: what the analyzer made of the expression
    linput,        \* LexSpec: the query string, a sequence of characters
    lrest,         \* LexSpec: Lexer.rest, what is left of the query string
    ltokens,       \* LexSpec: history, the tokens next() has returned
    lout,          \* LexSpec: what the last call of next() returned
    btree,         \* BTreeSpec: BTree.root
    bkeys,         \* BTreeSpec: history, the keys given to insert
    bout           \* BTreeSpec: the last call and what it returned

pageVars == <<page, added, pres, reconstructed>>

codecVars == <<cschema, crow, cpc, cvalid, cenc, cdec>>

dbVars == <<tables, buffer_pool, files, inserted, created, dres>>

evalVars == <<eexpr, erow, eout, overflow_checks>>

parseVars == <<ptokens, pout>>

analyzeVars == <<aexpr, aout>>

lexVars == <<linput, lrest, ltokens, lout>>

sqlVars == <<evalVars, parseVars, analyzeVars, lexVars>>

treeVars == <<btree, bkeys, bout>>

vars == <<pageVars, codecVars, dbVars, sqlVars, treeVars>>

(***************************************************************************)
(* Program constants.                                                      *)
(***************************************************************************)
PAGE_SIZE == 8192

PageHeaderSIZE == 24

\* std::mem::size_of::<ItemPointer>() of struct { u16, u16, u8 }: the two-byte
\* alignment of u16 pads the five bytes of fields to six.
ItemPointerSIZE == 6

DELETED_FLAG == 1

LIVE_FLAG == 0

(***************************************************************************)
(* Bounds of the model.                                                    *)
(***************************************************************************)
\* add_data is offered while the page holds fewer than MaxItems items
MaxItems == 3

\* the n of the VarChar(n) columns
MaxVarChar == 5

\* the number of columns of the wide schema: more than eight, so that its null
\* bitmap has a second byte
WideColumns == 9

\* a stored encoding is cut short by up to MaxCut bytes before it is decoded
MaxCut == 2

\* insert_row is offered while the table has taken fewer than MaxRows rows
MaxRows == 2

\* create_table is offered MaxCreates times for a name
MaxCreates == 2

(***************************************************************************)
(* Bytes.                                                                  *)
(***************************************************************************)
\* n bytes of value b (vec![b; n])
Rep(n, b) == [i \in 1..n |-> b]

\* uN::to_le_bytes and iN::to_le_bytes for N = 8k: the low byte, then the rest
\* shifted right by eight bits (\div rounds down, so a negative n sign-extends:
\* two's complement)
RECURSIVE to_le_bytes(_, _)
to_le_bytes(n, k) ==
    IF k = 0 THEN <<>> ELSE <<n % 256>> \o to_le_bytes(n \div 256, k - 1)

\* uN::from_le_bytes
RECURSIVE from_le_bytes(_)
from_le_bytes(bs) ==
    IF bs = <<>> THEN 0 ELSE bs[1] + 256 * from_le_bytes(Tail(bs))

\* i64::from_le_bytes: the top byte carries the sign
RECURSIVE from_le_bytes_signed(_)
from_le_bytes_signed(bs) ==
    IF Len(bs) = 1
    THEN IF bs[1] >= 128 THEN bs[1] - 256 ELSE bs[1]
    ELSE bs[1] + 256 * from_le_bytes_signed(Tail(bs))

\* dst[off..off + src.len()].copy_from_slice(src)
copy_from_slice(dst, off, src) ==
    SubSeq(dst, 1, off) \o src \o SubSeq(dst, off + Len(src) + 1, Len(dst))

\* &data[start..end]
Slice(data, start, end) == SubSeq(data, start + 1, end)

(***************************************************************************)
(* PageType and PageHeader.                                                *)
(***************************************************************************)
None == "None"

Table == [kind |-> "Table", a |-> None, b |-> None]

Catalog == [kind |-> "Catalog", a |-> None, b |-> None]

BTreeInternal(parent_page_id, level) ==
    [kind |-> "BTreeInternal", a |-> parent_page_id, b |-> level]

BTreeLeaf(next_leaf_page, prev_leaf_page) ==
    [kind |-> "BTreeLeaf", a |-> next_leaf_page, b |-> prev_leaf_page]

PageHeader_new(page_id, page_type) ==
    [page_id |-> page_id, page_type |-> page_type, lower |-> PageHeaderSIZE,
     upper |-> PAGE_SIZE % 65536, special |-> PAGE_SIZE % 65536, item_count |-> 0]

\* PageHeader::to_bytes panics on the B-tree page types
PageHeader_to_bytes_panics(h) == h.page_type.kind \notin {"Table", "Catalog"}

\* PageHeader::to_bytes with item_count written where special belongs
PageHeader_to_bytes_Shifted(h) ==
    to_le_bytes(h.page_id, 4)
        \o << (IF h.page_type.kind = "Table" THEN 0 ELSE 1) >>
        \o to_le_bytes(h.lower, 2)
        \o to_le_bytes(h.upper, 2)
        \o to_le_bytes(h.special, 2)
        \o to_le_bytes(h.item_count, 2)
        \o Rep(PageHeaderSIZE - 13, 0)

PageHeader_to_bytes(h) ==
    to_le_bytes(h.page_id, 4)
        \o << (IF h.page_type.kind = "Table" THEN 0 ELSE 1) >>
        \o to_le_bytes(h.lower, 2)
        \o to_le_bytes(h.upper, 2)
        \o to_le_bytes(h.item_count, 2)
        \o to_le_bytes(h.special, 2)
        \o Rep(PageHeaderSIZE - 13, 0)

\* PageHeader::from_bytes panics on a type byte other than 0 or 1
PageHeader_from_bytes_panics(data) == data[5] \notin {0, 1}

PageHeader_from_bytes(data) ==
    [page_id |-> from_le_bytes(Slice(data, 0, 4)),
     page_type |-> IF data[5] = 0 THEN Table ELSE Catalog,
     lower |-> from_le_bytes(Slice(data, 5, 7)),
     upper |-> from_le_bytes(Slice(data, 7, 9)),
     item_count |-> from_le_bytes(Slice(data, 9, 11)),
     special |-> from_le_bytes(Slice(data, 11, 13))]

(***************************************************************************)
(* ItemPointer.                                                            *)
(***************************************************************************)
ItemPointer_new(offset, length) ==
    [offset |-> offset, length |-> length, flags |-> LIVE_FLAG]

\* ItemPointer::is_deleted that finds no pointer deleted
is_deleted_Never(ip) == FALSE

is_deleted(ip) == (ip.flags % 2) = DELETED_FLAG

\* ItemPointer::mark_deleted that also gives the space of the item up
mark_deleted_ClearingLength(ip) ==
    [ip EXCEPT !.flags = IF (ip.flags % 2) = 1 THEN ip.flags ELSE ip.flags + DELETED_FLAG,
               !.length = 0]

\* flags |= DELETED_FLAG
mark_deleted(ip) ==
    [ip EXCEPT !.flags = IF (ip.flags % 2) = 1 THEN ip.flags ELSE ip.flags + DELETED_FLAG]

ItemPointer_to_bytes(ip) ==
    to_le_bytes(ip.offset, 2) \o to_le_bytes(ip.length, 2) \o <<ip.flags>>
        \o Rep(ItemPointerSIZE - 5, 0)

ItemPointer_from_bytes(data) ==
    [offset |-> from_le_bytes(Slice(data, 0, 2)),
     length |-> from_le_bytes(Slice(data, 2, 4)),
     flags |-> data[5]]

(***************************************************************************)
(* Page.                                                                   *)
(***************************************************************************)
ZeroData == Rep(PAGE_SIZE - PageHeaderSIZE, 0)

Page_new(page_id, page_type) ==
    [header |-> PageHeader_new(page_id, page_type), data |-> ZeroData]

Page_to_bytes(p) == PageHeader_to_bytes(p.header) \o p.data

Page_from_bytes(data) ==
    [header |-> PageHeader_from_bytes(Slice(data, 0, PageHeaderSIZE)),
     data |-> Slice(data, PageHeaderSIZE, PAGE_SIZE)]

\* no page
NoPage == [header |-> PageHeader_new(0, Table), data |-> <<>>]

free_space(p) == p.header.upper - p.header.lower

\* the item pointers of the page, item id i at position i+1
item_pointers(p) ==
    [i \in 1..p.header.item_count |->
        ItemPointer_from_bytes(
            Slice(p.data, (i - 1) * ItemPointerSIZE, i * ItemPointerSIZE))]

\* Page::add_data with the space check forgetting the item pointer
add_data_NoPointerSpace(p, data) ==
    LET len16 == Len(data) % 65536
        upper == p.header.upper - len16
        data_offset == upper - PageHeaderSIZE
        data1 == copy_from_slice(p.data, data_offset, data)
        item_pointer == ItemPointer_new(upper, len16)
        offset == p.header.item_count * ItemPointerSIZE
        data2 == copy_from_slice(data1, offset, ItemPointer_to_bytes(item_pointer))
    IN  IF free_space(p) < Len(data)
        THEN [ok |-> FALSE, page |-> p, item_id |-> -1]
        ELSE [ok |-> TRUE,
              page |-> [header |-> [p.header EXCEPT
                                      !.upper = upper,
                                      !.lower = @ + ItemPointerSIZE,
                                      !.item_count = @ + 1],
                        data |-> data2],
              item_id |-> p.header.item_count]

\* Page::add_data returning the item count after the increment
add_data_IdAfterIncrement(p, data) ==
    LET needed_space == Len(data) + ItemPointerSIZE
        len16 == Len(data) % 65536
        upper == p.header.upper - len16
        data_offset == upper - PageHeaderSIZE
        data1 == copy_from_slice(p.data, data_offset, data)
        item_pointer == ItemPointer_new(upper, len16)
        offset == p.header.item_count * ItemPointerSIZE
        data2 == copy_from_slice(data1, offset, ItemPointer_to_bytes(item_pointer))
    IN  IF free_space(p) < needed_space
        THEN [ok |-> FALSE, page |-> p, item_id |-> -1]
        ELSE [ok |-> TRUE,
              page |-> [header |-> [p.header EXCEPT
                                      !.upper = upper,
                                      !.lower = @ + ItemPointerSIZE,
                                      !.item_count = @ + 1],
                        data |-> data2],
              item_id |-> p.header.item_count + 1]

\* Page::add_data: [ok, page, item_id]
add_data(p, data) ==
    LET needed_space == Len(data) + ItemPointerSIZE
        len16 == Len(data) % 65536
        upper == p.header.upper - len16
        data_offset == upper - PageHeaderSIZE
        data1 == copy_from_slice(p.data, data_offset, data)
        item_pointer == ItemPointer_new(upper, len16)
        offset == p.header.item_count * ItemPointerSIZE
        data2 == copy_from_slice(data1, offset, ItemPointer_to_bytes(item_pointer))
    IN  IF free_space(p) < needed_space
        THEN [ok |-> FALSE, page |-> p, item_id |-> -1]
        ELSE [ok |-> TRUE,
              page |-> [header |-> [p.header EXCEPT
                                      !.upper = upper,
                                      !.lower = @ + ItemPointerSIZE,
                                      !.item_count = @ + 1],
                        data |-> data2],
              item_id |-> p.header.item_count]

\* Page::get_item: [ok, data]; the deleted flag is not looked at
get_item(p, item_id) ==
    IF item_id >= p.header.item_count
    THEN [ok |-> FALSE, data |-> <<>>]
    ELSE LET item_pointer == item_pointers(p)[item_id + 1]
             start == item_pointer.offset - PageHeaderSIZE
             end == start + item_pointer.length
         IN  [ok |-> TRUE, data |-> Slice(p.data, start, end)]

\* Page::delete_item: [ok, page]
delete_item(p, item_id) ==
    LET index == item_id
        start == index * ItemPointerSIZE
        end == start + ItemPointerSIZE
        item_pointer == mark_deleted(ItemPointer_from_bytes(Slice(p.data, start, end)))
    IN  IF index >= p.header.item_count
        THEN [ok |-> FALSE, page |-> p]
        ELSE [ok |-> TRUE,
              page |-> [p EXCEPT !.data =
                          copy_from_slice(p.data, start, ItemPointer_to_bytes(item_pointer))]]

(***************************************************************************)
(* Types, values, schemas and rows (src/src/core/types.rs,                 *)
(* src/src/db/table).  A Value is a record of one shape: i holds an Int64, *)
(* s the UTF-8 bytes of a Text or the fields of a Float64, b a Bool.  A     *)
(* Float64 is its IEEE-754 binary64 fields <<sign, exponent, m2, m1, m0>>, *)
(* the 52-bit fraction split into bits 51..32, 31..16 and 15..0.           *)
(***************************************************************************)
DataType(kind) == [kind |-> kind, max |-> 0]

VarChar(max_length) == [kind |-> "VarChar", max |-> max_length]

Int64(n) == [tag |-> "Int64", i |-> n, s |-> <<>>, b |-> FALSE]

Float64(fields) == [tag |-> "Float64", i |-> 0, s |-> fields, b |-> FALSE]

Text(bytes) == [tag |-> "Text", i |-> 0, s |-> bytes, b |-> FALSE]

Bool(b) == [tag |-> "Bool", i |-> 0, s |-> <<>>, b |-> b]

Null == [tag |-> "Null", i |-> 0, s |-> <<>>, b |-> FALSE]

ColumnDef(name, data_type, nullable) ==
    [name |-> name, data_type |-> data_type, nullable |-> nullable]

\* Value::is_compatible_with: TRUE for Ok(())
is_compatible_with(value, data_type) ==
    IF value.tag = "Text" /\ data_type.kind = "VarChar"
    THEN Len(value.s) <= data_type.max
    ELSE \/ value.tag = "Int64" /\ data_type.kind = "Int64"
         \/ value.tag = "Bool" /\ data_type.kind = "Bool"
         \/ value.tag = "Float64" /\ data_type.kind = "Float64"
         \/ value.tag = "Null"
         \/ value.tag = "Text" /\ data_type.kind = "Text"

\* TableDef::insert_row, the insert-time validator: "ok" or "TypeMismatch"
TableDef_insert_row(schema, row) ==
    IF Len(row) # Len(schema)
    THEN "TypeMismatch"
    ELSE IF \A i \in 1..Len(row) :
                IF row[i].tag = "Null"
                THEN schema[i].nullable
                ELSE is_compatible_with(row[i], schema[i].data_type)
         THEN "ok"
         ELSE "TypeMismatch"

(***************************************************************************)
(* NullBitmap (src/src/db/null_bitmap.rs).                                 *)
(***************************************************************************)
div_ceil(n, d) == (n + d - 1) \div d

\* 1 << bit_idx
Shl1(bit_idx) == <<1, 2, 4, 8, 16, 32, 64, 128>>[bit_idx + 1]

NullBitmap_new(num_columns) == Rep(div_ceil(num_columns, 8), 0)

\* NullBitmap::set_null with the bits of a byte counted from the top
NullBitmap_set_null_MsbFirst(bytes, index) ==
    LET byte_idx == index \div 8
        bit_idx == 7 - (index % 8)
        old == bytes[byte_idx + 1]
    IN  [bytes EXCEPT ![byte_idx + 1] =
            IF (old \div Shl1(bit_idx)) % 2 = 1 THEN old ELSE old + Shl1(bit_idx)]

\* NullBitmap::set_null: bytes[byte_idx] |= 1 << bit_idx
NullBitmap_set_null(bytes, index) ==
    LET byte_idx == index \div 8
        bit_idx == index % 8
        old == bytes[byte_idx + 1]
    IN  [bytes EXCEPT ![byte_idx + 1] =
            IF (old \div Shl1(bit_idx)) % 2 = 1 THEN old ELSE old + Shl1(bit_idx)]

\* NullBitmap::is_null
NullBitmap_is_null(bytes, index) ==
    LET byte_idx == index \div 8
        bit_idx == index % 8
    IN  IF byte_idx >= Len(bytes)
        THEN FALSE
        ELSE (bytes[byte_idx + 1] \div Shl1(bit_idx)) % 2 = 1

\* NullBitmap::from_bytes: [ok, bytes]
NullBitmap_from_bytes(bytes, num_columns) ==
    LET expected_len == div_ceil(num_columns, 8)
    IN  IF Len(bytes) < expected_len
        THEN [ok |-> FALSE, bytes |-> <<>>]
        ELSE [ok |-> TRUE, bytes |-> Slice(bytes, 0, expected_len)]

(***************************************************************************)
(* The row codec (src/src/db/table/schema.rs).                             *)
(***************************************************************************)
\* f64::to_le_bytes of the fields <<sign, exponent, m2, m1, m0>>
f64_to_le_bytes(f) ==
    to_le_bytes(f[5], 2) \o to_le_bytes(f[4], 2) \o to_le_bytes(f[3] % 65536, 2)
        \o << (f[3] \div 65536) + 16 * (f[2] % 16), (f[2] \div 16) + 128 * f[1] >>

\* f64::from_le_bytes
f64_from_le_bytes(bs) ==
    << bs[8] \div 128,
       16 * (bs[8] % 128) + (bs[7] \div 16),
       65536 * (bs[7] % 16) + from_le_bytes(Slice(bs, 4, 6)),
       from_le_bytes(Slice(bs, 2, 4)),
       from_le_bytes(Slice(bs, 0, 2)) >>

\* std::str::from_utf8(bytes).is_ok(): well-formed UTF-8 (lead byte, number and
\* range of continuation bytes; no overlong form, no surrogate, at most U+10FFFF)
RECURSIVE Utf8From(_, _)
Utf8From(bs, i) ==
    LET n == Len(bs)
        c == bs[i]
        Cont(j, lo, hi) == j <= n /\ bs[j] >= lo /\ bs[j] <= hi
    IN  IF i > n THEN TRUE
        ELSE IF c < 128 THEN Utf8From(bs, i + 1)
        ELSE IF c >= 194 /\ c <= 223
             THEN Cont(i + 1, 128, 191) /\ Utf8From(bs, i + 2)
        ELSE IF c >= 224 /\ c <= 239
             THEN /\ Cont(i + 1, IF c = 224 THEN 160 ELSE 128, IF c = 237 THEN 159 ELSE 191)
                  /\ Cont(i + 2, 128, 191)
                  /\ Utf8From(bs, i + 3)
        ELSE IF c >= 240 /\ c <= 244
             THEN /\ Cont(i + 1, IF c = 240 THEN 144 ELSE 128, IF c = 244 THEN 143 ELSE 191)
                  /\ Cont(i + 2, 128, 191)
                  /\ Cont(i + 3, 128, 191)
                  /\ Utf8From(bs, i + 4)
        ELSE FALSE

from_utf8_is_ok(bs) == (\A i \in 1..Len(bs) : bs[i] < 128) \/ Utf8From(bs, 1)

\* the bitmap loop of encode_row, from row index i: [panic, bytes]; set_null
\* indexes the bitmap out of bounds when the row is longer than the bitmap
RECURSIVE SetNulls(_, _, _)
SetNulls(bitmap, row, i) ==
    IF i >= Len(row) THEN [panic |-> FALSE, bytes |-> bitmap]
    ELSE IF row[i + 1].tag # "Null" THEN SetNulls(bitmap, row, i + 1)
    ELSE IF i \div 8 >= Len(bitmap) THEN [panic |-> TRUE, bytes |-> bitmap]
    ELSE SetNulls(NullBitmap_set_null(bitmap, i), row, i + 1)

\* one arm of encode_row's match with the text length written as a u16
EncodeValue_ShortLength(column, value) ==
    LET t == column.data_type.kind
    IN  IF t = "Int64" /\ value.tag = "Int64"
        THEN [panic |-> FALSE, bytes |-> to_le_bytes(value.i, 8)]
        ELSE IF t = "Float64" /\ value.tag = "Float64"
        THEN [panic |-> FALSE, bytes |-> f64_to_le_bytes(value.s)]
        ELSE IF t = "Text" /\ value.tag = "Text"
        THEN [panic |-> FALSE, bytes |-> to_le_bytes(Len(value.s), 2) \o value.s]
        ELSE IF t = "VarChar" /\ value.tag = "Text"
        THEN [panic |-> ~(Len(value.s) <= column.data_type.max),
              bytes |-> to_le_bytes(Len(value.s), 2) \o value.s]
        ELSE IF t = "Bool" /\ value.tag = "Bool"
        THEN [panic |-> FALSE, bytes |-> << (IF value.b THEN 1 ELSE 0) >>]
        ELSE [panic |-> TRUE, bytes |-> <<>>]

\* one arm of encode_row's match on (column.data_type, value): [panic, bytes].
\* The VarChar arm asserts the length; a pair no arm names panics.  (The text
\* length is cast to u32; the texts of the model are far shorter than 2^32.)
EncodeValue(column, value) ==
    LET t == column.data_type.kind
    IN  IF t = "Int64" /\ value.tag = "Int64"
        THEN [panic |-> FALSE, bytes |-> to_le_bytes(value.i, 8)]
        ELSE IF t = "Float64" /\ value.tag = "Float64"
        THEN [panic |-> FALSE, bytes |-> f64_to_le_bytes(value.s)]
        ELSE IF t = "Text" /\ value.tag = "Text"
        THEN [panic |-> FALSE, bytes |-> to_le_bytes(Len(value.s), 4) \o value.s]
        ELSE IF t = "VarChar" /\ value.tag = "Text"
        THEN [panic |-> ~(Len(value.s) <= column.data_type.max),
              bytes |-> to_le_bytes(Len(value.s), 4) \o value.s]
        ELSE IF t = "Bool" /\ value.tag = "Bool"
        THEN [panic |-> FALSE, bytes |-> << (IF value.b THEN 1 ELSE 0) >>]
        ELSE [panic |-> TRUE, bytes |-> <<>>]

\* the payload loop of encode_row over row.values zipped with the columns,
\* from position k: [panic, bytes]
RECURSIVE EncodeColumns(_, _, _)
EncodeColumns(schema, row, k) ==
    IF k > Len(row) \/ k > Len(schema) THEN [panic |-> FALSE, bytes |-> <<>>]
    ELSE IF row[k].tag = "Null" THEN EncodeColumns(schema, row, k + 1)
    ELSE LET e == EncodeValue(schema[k], row[k])
             rest == EncodeColumns(schema, row, k + 1)
         IN  IF e.panic THEN e
             ELSE [panic |-> rest.panic, bytes |-> e.bytes \o rest.bytes]

\* Schema::encode_row: [panic, bytes]
encode_row(schema, row) ==
    LET bitmap == SetNulls(NullBitmap_new(Len(schema)), row, 0)
        payload == EncodeColumns(schema, row, 1)
    IN  IF bitmap.panic \/ payload.panic
        THEN [panic |-> TRUE, bytes |-> <<>>]
        ELSE [panic |-> FALSE, bytes |-> bitmap.bytes \o payload.bytes]

\* the column loop of decode_row from column idx at byte offset:
\* [res, values], res "ok", "err" or "panic" (todo!() on a Timestamp column)
RECURSIVE DecodeColumns(_, _, _, _, _)
DecodeColumns(schema, bitmap, bytes, idx, offset) ==
    LET t == schema[idx + 1].data_type.kind
        Rest(value, size) ==
            LET r == DecodeColumns(schema, bitmap, bytes, idx + 1, offset + size)
            IN  [res |-> r.res, values |-> <<value>> \o r.values]
        length == from_le_bytes(Slice(bytes, offset, offset + 4))
        Err == [res |-> "err", values |-> <<>>]
    IN  IF idx >= Len(schema) THEN [res |-> "ok", values |-> <<>>]
        ELSE IF NullBitmap_is_null(bitmap, idx) THEN Rest(Null, 0)
        ELSE IF t = "Int64"
        THEN IF offset + 8 > Len(bytes) THEN Err
             ELSE Rest(Int64(from_le_bytes_signed(Slice(bytes, offset, offset + 8))), 8)
        ELSE IF t = "Float64"
        THEN IF offset + 8 > Len(bytes) THEN Err
             ELSE Rest(Float64(f64_from_le_bytes(Slice(bytes, offset, offset + 8))), 8)
        ELSE IF t = "Bool"
        THEN IF offset + 1 > Len(bytes) THEN Err
             ELSE Rest(Bool(bytes[offset + 1] # 0), 1)
        ELSE IF t \in {"Text", "VarChar"}
        THEN IF offset + 4 > Len(bytes) THEN Err
             ELSE IF offset + 4 + length > Len(bytes) THEN Err
             ELSE IF ~from_utf8_is_ok(Slice(bytes, offset + 4, offset + 4 + length)) THEN Err
             ELSE Rest(Text(Slice(bytes, offset + 4, offset + 4 + length)), 4 + length)
        ELSE [res |-> "panic", values |-> <<>>]

\* Schema::decode_row: [res, values]
decode_row(schema, bytes) ==
    LET bitmap == NullBitmap_from_bytes(bytes, Len(schema))
        r == DecodeColumns(schema, bitmap.bytes, bytes, 0, Len(bitmap.bytes))
    IN  IF ~bitmap.ok THEN [res |-> "err", values |-> <<>>]
        ELSE IF r.res = "ok" THEN r
        ELSE [res |-> r.res, values |-> <<>>]

(***************************************************************************)
(* f64 arithmetic.  The floats the evaluator meets in this model have at   *)
(* most 21 significant bits (m1 = m0 = 0 in <<sign, exponent, m2, m1, m0>>)*)
(* and so do the results of the operations applied to them, which are      *)
(* therefore exact: a float is read as (-1)^s * m * 2^e with m odd or 0.   *)
(***************************************************************************)
RECURSIVE Normalise(_, _, _)
Normalise(s, m, e) ==
    IF m = 0 THEN [s |-> s, m |-> 0, e |-> 0]
    ELSE IF m % 2 = 0 THEN Normalise(s, m \div 2, e + 1)
    ELSE [s |-> s, m |-> m, e |-> e]

\* the value of the fields of a float
f64_parts(f) ==
    IF f[2] = 0 /\ f[3] = 0 THEN [s |-> f[1], m |-> 0, e |-> 0]
    ELSE Normalise(f[1], 1048576 + f[3], f[2] - 1043)

\* floor(log2(m)) for m >= 1
RECURSIVE ilog2(_)
ilog2(m) == IF m < 2 THEN 0 ELSE 1 + ilog2(m \div 2)

\* the fields of the float of a value
f64_fields(d) ==
    LET k == ilog2(d.m)
    IN  IF d.m = 0 THEN <<d.s, 0, 0, 0, 0>>
        ELSE <<d.s, 1023 + d.e + k, (d.m - 2 ^ k) * 2 ^ (20 - k), 0, 0>>

\* i64 as f64
i64_as_f64(n) == f64_fields(Normalise(IF n < 0 THEN 1 ELSE 0, IF n < 0 THEN -n ELSE n, 0))

\* the signed numerator of a value over 2^(-e)
Scaled(d, e) ==
    IF d.m = 0 THEN 0 ELSE (IF d.s = 1 THEN -1 ELSE 1) * d.m * 2 ^ (d.e - e)

f64_neg(a) == <<1 - a[1], a[2], a[3], a[4], a[5]>>

\* a + b; a zero sum is -0.0 only when both operands are negative
f64_add(a, b) ==
    LET x == f64_parts(a)
        y == f64_parts(b)
        e == IF x.m = 0 THEN y.e ELSE IF y.m = 0 THEN x.e
             ELSE IF x.e < y.e THEN x.e ELSE y.e
        sum == Scaled(x, e) + Scaled(y, e)
    IN  IF sum = 0
        THEN <<(IF x.s = 1 /\ y.s = 1 THEN 1 ELSE 0), 0, 0, 0, 0>>
        ELSE f64_fields(Normalise(IF sum < 0 THEN 1 ELSE 0, IF sum < 0 THEN -sum ELSE sum, e))

f64_sub(a, b) == f64_add(a, f64_neg(b))

f64_mul(a, b) ==
    LET x == f64_parts(a)
        y == f64_parts(b)
    IN  f64_fields(Normalise((x.s + y.s) % 2, x.m * y.m, x.e + y.e))

\* a / b for b # 0; the divisors of the model are powers of two
f64_div(a, b) ==
    LET x == f64_parts(a)
        y == f64_parts(b)
    IN  f64_fields(Normalise((x.s + y.s) % 2, x.m \div y.m, x.e - y.e))

\* a == 0.0
f64_is_zero(a) == f64_parts(a).m = 0

\* a < b
f64_lt(a, b) ==
    LET x == f64_parts(a)
        y == f64_parts(b)
        e == IF x.m = 0 THEN y.e ELSE IF y.m = 0 THEN x.e
             ELSE IF x.e < y.e THEN x.e ELSE y.e
    IN  Scaled(x, e) < Scaled(y, e)

\* (a - b).abs() < f64::EPSILON, EPSILON being 2^-52
f64_close(a, b) ==
    LET d == f64_parts(f64_sub(a, b))
    IN  d.m = 0 \/ (d.e < -52 /\ d.m < 2 ^ (-52 - d.e))

(***************************************************************************)
(* Expressions (src/src/sql/parser/ast/expression/mod.rs) and their        *)
(* evaluation (src/src/sql/evaluator).  An evaluation returns res ("ok" or *)
(* "err"), the error, the value and calls, the number of calls of          *)
(* evaluate it took.  The integers of the model are far from the limits of *)
(* i64.                                                                    *)
(***************************************************************************)
Literal(value) == [kind |-> "Literal", value |-> value]

Column(name) == [kind |-> "Column", name |-> name]

BinaryOp(left, op, right) == [kind |-> "BinaryOp", left |-> left, op |-> op, right |-> right]

Is(expr, predicate, is_negated) ==
    [kind |-> "Is", expr |-> expr, predicate |-> predicate, is_negated |-> is_negated]

\* An i64 is h * 2^63 + d with h in -1..1 and d within 2^10 of zero: the
\* values near zero, near i64::MAX (h = 1, d < 0) and near i64::MIN (h = -1,
\* d >= 0).  Int64(n) is the value with h = 0; h is kept in the field s.
I64(h, d) == [tag |-> "Int64", i |-> d, s |-> IF h = 0 THEN <<>> ELSE <<h>>, b |-> FALSE]

i64_MAX == I64(1, -1)

i64_MIN == I64(-1, 0)

i64_h(v) == IF v.s = <<>> THEN 0 ELSE v.s[1]

\* h * 2^63 + d is an i64
i64_in_range(h, d) == h = 0 \/ (h = 1 /\ d < 0) \/ (h = -1 /\ d >= 0)

\* the i64 that is congruent to h * 2^63 + d modulo 2^64
i64_wrapping(h, d) ==
    IF h % 2 = 0 THEN I64(0, d) ELSE IF d < 0 THEN I64(1, d) ELSE I64(-1, d)

\* a < b on i64
i64_lt(a, b) == i64_h(a) < i64_h(b) \/ (i64_h(a) = i64_h(b) /\ a.i < b.i)

\* the operand of a float operation: a Float64 as it is, an Int64 `as f64`,
\* which rounds the values near the ends of the range to 2^63
AsF64(v) ==
    IF v.tag # "Int64" THEN v.s
    ELSE IF i64_h(v) = 0 THEN i64_as_f64(v.i)
    ELSE f64_fields([s |-> IF i64_h(v) < 0 THEN 1 ELSE 0, m |-> 1, e |-> 63])

Numeric(v) == v.tag \in {"Int64", "Float64"}

Ok(value) == [res |-> "ok", error |-> "none", value |-> value]

Err(error) == [res |-> "err", error |-> error, value |-> Null]

\* the thread panics
Panic == [res |-> "panic", error |-> "none", value |-> Null]

\* the outcome of an i64 operation whose mathematical result is h * 2^63 + d:
\* out of range it is "attempt to .. with overflow", a panic where overflow
\* checks are compiled in and the wrapped value where they are not
i64_checked(h, d) ==
    IF i64_in_range(h, d) THEN Ok(I64(h, d))
    ELSE IF overflow_checks THEN Panic
    ELSE Ok(i64_wrapping(h, d))

\* a / b on small i64 truncates towards zero
i64_div(a, b) ==
    LET abs(n) == IF n < 0 THEN -n ELSE n
        q == abs(a) \div abs(b)
    IN  IF (a < 0) # (b < 0) THEN -q ELSE q

\* a * b on i64: beyond the product of the small parts, the result has
\* (ha * db + hb * da) * 2^63 and ha * hb * 2^126
i64_mul(a, b) ==
    LET k == i64_h(a) * b.i + i64_h(b) * a.i
    IN  IF i64_h(a) * i64_h(b) = 0 /\ k \in -1..1
        THEN i64_checked(k, a.i * b.i)
        ELSE IF overflow_checks THEN Panic
        ELSE Ok(i64_wrapping(k, a.i * b.i))

\* a / b on i64, b # 0: i64::MIN / -1 panics in every build.  The quotient
\* of a value near the ends of the range by a small b other than 1 and -1 is
\* not a value of the model.
i64_quotient(a, b) ==
    CASE a = i64_MIN /\ b = I64(0, -1) -> Panic
      [] i64_h(a) = 0 /\ i64_h(b) = 0 -> Ok(I64(0, i64_div(a.i, b.i)))
      [] i64_h(a) = 0 /\ i64_h(b) # 0 -> Ok(I64(0, 0))
      [] i64_h(a) # 0 /\ b = I64(0, 1) -> Ok(a)
      [] i64_h(a) # 0 /\ b = I64(0, -1) -> Ok(I64(-i64_h(a), -a.i))
      [] i64_h(a) # 0 /\ i64_h(b) # 0 ->
           Ok(I64(0, IF i64_h(a) * a.i >= i64_h(b) * b.i THEN i64_h(a) * i64_h(b) ELSE 0))

values_add(left, right) ==
    IF left.tag = "Int64" /\ right.tag = "Int64"
    THEN i64_checked(i64_h(left) + i64_h(right), left.i + right.i)
    ELSE IF Numeric(left) /\ Numeric(right)
    THEN Ok(Float64(f64_add(AsF64(left), AsF64(right))))
    ELSE IF left.tag = "Null" \/ right.tag = "Null" THEN Ok(Null)
    ELSE Err("Cannot add")

values_subtract(left, right) ==
    IF left.tag = "Int64" /\ right.tag = "Int64"
    THEN i64_checked(i64_h(left) - i64_h(right), left.i - right.i)
    ELSE IF Numeric(left) /\ Numeric(right)
    THEN Ok(Float64(f64_sub(AsF64(left), AsF64(right))))
    ELSE IF left.tag = "Null" \/ right.tag = "Null" THEN Ok(Null)
    ELSE Err("Cannot subtract")

values_multiply(left, right) ==
    IF left.tag = "Int64" /\ right.tag = "Int64" THEN i64_mul(left, right)
    ELSE IF Numeric(left) /\ Numeric(right)
    THEN Ok(Float64(f64_mul(AsF64(left), AsF64(right))))
    ELSE IF left.tag = "Null" \/ right.tag = "Null" THEN Ok(Null)
    ELSE Err("Cannot multiply")

values_divide(left, right) ==
    IF left.tag = "Int64" /\ right.tag = "Int64"
    THEN IF right = I64(0, 0) THEN Err("Division by zero")
         ELSE i64_quotient(left, right)
    ELSE IF Numeric(left) /\ Numeric(right)
    THEN IF f64_is_zero(AsF64(right)) THEN Err("Division by zero")
         ELSE Ok(Float64(f64_div(AsF64(left), AsF64(right))))
    ELSE IF left.tag = "Null" \/ right.tag = "Null" THEN Ok(Null)
    ELSE Err("Cannot divide")

values_equal(left, right) ==
    IF left.tag = "Null" \/ right.tag = "Null" THEN Ok(Null)
    ELSE IF left.tag = "Int64" /\ right.tag = "Int64" THEN Ok(Bool(left = right))
    ELSE IF Numeric(left) /\ Numeric(right)
    THEN Ok(Bool(f64_close(AsF64(left), AsF64(right))))
    ELSE IF left.tag = "Text" /\ right.tag = "Text" THEN Ok(Bool(left.s = right.s))
    ELSE IF left.tag = "Bool" /\ right.tag = "Bool" THEN Ok(Bool(left.b = right.b))
    ELSE Ok(Bool(FALSE))

values_greater_than(left, right) ==
    IF left.tag = "Int64" /\ right.tag = "Int64" THEN Ok(Bool(i64_lt(right, left)))
    ELSE IF Numeric(left) /\ Numeric(right)
    THEN Ok(Bool(f64_lt(AsF64(right), AsF64(left))))
    ELSE IF left.tag = "Null" \/ right.tag = "Null" THEN Ok(Bool(FALSE))
    ELSE Err("Invalid comparison")

values_less_than(left, right) ==
    IF left.tag = "Int64" /\ right.tag = "Int64" THEN Ok(Bool(i64_lt(left, right)))
    ELSE IF Numeric(left) /\ Numeric(right)
    THEN Ok(Bool(f64_lt(AsF64(left), AsF64(right))))
    ELSE IF left.tag = "Null" \/ right.tag = "Null" THEN Ok(Bool(FALSE))
    ELSE Err("Invalid comparison")

\* schema.get_column_index(name): the 0-based position, -1 for None
get_column_index(schema, name) ==
    IF \E i \in 1..Len(schema) : schema[i].name = name
    THEN (CHOOSE i \in 1..Len(schema) :
              schema[i].name = name /\ \A j \in 1..(i - 1) : schema[j].name # name) - 1
    ELSE -1

is_truthy(val) == val.tag = "Bool" /\ val.b

\* the negation applied to the result of a comparison
NotOf(r) ==
    IF r.res # "ok" THEN r
    ELSE IF r.value.tag = "Bool" THEN Ok(Bool(~r.value.b))
    ELSE Ok(Null)

\* an evaluation result with the calls of evaluate it took
WithCalls(r, calls) == [res |-> r.res, error |-> r.error, value |-> r.value, calls |-> calls]

RECURSIVE ExpressionEvaluator_evaluate(_, _, _)
\* a variant of evaluate_and that evaluates both operands before it decides
evaluate_and_Eager(left, right, row, schema) ==
    LET l == ExpressionEvaluator_evaluate(left, row, schema)
        r == ExpressionEvaluator_evaluate(right, row, schema)
    IN  IF l.res # "ok" THEN WithCalls(l, l.calls + r.calls)
        ELSE IF r.res # "ok" THEN WithCalls(r, l.calls + r.calls)
        ELSE IF ~is_truthy(l.value) THEN WithCalls(Ok(Bool(FALSE)), l.calls + r.calls)
        ELSE WithCalls(Ok(Bool(is_truthy(r.value))), l.calls + r.calls)

evaluate_and(left, right, row, schema) ==
    LET l == ExpressionEvaluator_evaluate(left, row, schema)
        r == ExpressionEvaluator_evaluate(right, row, schema)
    IN  IF l.res # "ok" THEN l
        ELSE IF ~is_truthy(l.value) THEN WithCalls(Ok(Bool(FALSE)), l.calls)
        ELSE IF r.res # "ok" THEN WithCalls(r, l.calls + r.calls)
        ELSE WithCalls(Ok(Bool(is_truthy(r.value))), l.calls + r.calls)

evaluate_or(left, right, row, schema) ==
    LET l == ExpressionEvaluator_evaluate(left, row, schema)
        r == ExpressionEvaluator_evaluate(right, row, schema)
    IN  IF l.res # "ok" THEN l
        ELSE IF is_truthy(l.value) THEN WithCalls(Ok(Bool(TRUE)), l.calls)
        ELSE IF r.res # "ok" THEN WithCalls(r, l.calls + r.calls)
        ELSE WithCalls(Ok(Bool(is_truthy(r.value))), l.calls + r.calls)

\* the arithmetic and comparison operators, both operands evaluated
ApplyOperator(op, l, r) ==
    CASE op = "Add" -> values_add(l, r)
      [] op = "Subtract" -> values_subtract(l, r)
      [] op = "Multiply" -> values_multiply(l, r)
      [] op = "Divide" -> values_divide(l, r)
      [] op = "Equal" -> values_equal(l, r)
      [] op = "NotEqual" -> NotOf(values_equal(l, r))
      [] op = "GreaterThan" -> values_greater_than(l, r)
      [] op = "LessThan" -> values_less_than(l, r)
      [] op = "GreaterThanEqual" -> NotOf(values_less_than(l, r))
      [] op = "LessThanEqual" -> NotOf(values_greater_than(l, r))
      [] OTHER -> Err("Operator not implemented")

ExpressionEvaluator_evaluate(expression, row, schema) ==
    CASE expression.kind = "Literal" -> WithCalls(Ok(expression.value), 1)
      [] expression.kind = "Column" ->
           LET idx == get_column_index(schema, expression.name)
           IN  IF idx < 0 THEN WithCalls(Err("Column does not exist"), 1)
               ELSE IF idx < Len(row) THEN WithCalls(Ok(row[idx + 1]), 1)
               ELSE WithCalls(Ok(Null), 1)
      [] expression.kind = "BinaryOp" ->
           IF expression.op = "And"
           THEN LET r == evaluate_and(expression.left, expression.right, row, schema)
                IN  WithCalls(r, r.calls + 1)
           ELSE IF expression.op = "Or"
           THEN LET r == evaluate_or(expression.left, expression.right, row, schema)
                IN  WithCalls(r, r.calls + 1)
           ELSE LET l == ExpressionEvaluator_evaluate(expression.left, row, schema)
                    r == ExpressionEvaluator_evaluate(expression.right, row, schema)
                IN  IF l.res # "ok" THEN WithCalls(l, l.calls + 1)
                    ELSE IF r.res # "ok" THEN WithCalls(r, l.calls + r.calls + 1)
                    ELSE WithCalls(ApplyOperator(expression.op, l.value, r.value),
                                   l.calls + r.calls + 1)
      [] expression.kind = "Is" ->
           LET v == ExpressionEvaluator_evaluate(expression.expr, row, schema)
               match_against == CASE expression.predicate = "True" -> Bool(TRUE)
                                  [] expression.predicate = "False" -> Bool(FALSE)
                                  [] OTHER -> Null
           IN  IF v.res # "ok" THEN WithCalls(v, v.calls + 1)
               ELSE WithCalls(Ok(Bool((v.value = match_against) # expression.is_negated)),
                              v.calls + 1)

\* PredicateEvaluator::evaluate: Result<bool> as res and value
PredicateEvaluator_evaluate(expression, row, schema) ==
    LET v == ExpressionEvaluator_evaluate(expression, row, schema)
    IN  IF v.res # "ok" THEN [res |-> v.res, error |-> v.error, value |-> FALSE]
        ELSE IF v.value.tag = "Bool" THEN [res |-> "ok", error |-> "none", value |-> v.value.b]
        ELSE IF v.value.tag = "Null" THEN [res |-> "ok", error |-> "none", value |-> FALSE]
        ELSE [res |-> "err", error |-> "WHERE clause must evaluate to a boolean", value |-> FALSE]

(***************************************************************************)
(* The expression parser (src/src/sql/parser/mod.rs) over the token stream *)
(* of the lexer.  A token is [type, text, value]; a lexer error is an item *)
(* of the stream, of type "Error".  A parse returns res, the expression    *)
(* and pos, the number of items taken from the stream.                     *)
(***************************************************************************)
Token(type) == [type |-> type, text |-> "", value |-> Null]

TokenKeyword(keyword) == [type |-> "Keyword", text |-> keyword, value |-> Null]

TokenIdentifier(name) == [type |-> "Identifier", text |-> name, value |-> Null]

\* Token::Integer, Token::Float and Token::String with the value they carry
TokenLiteral(type, value) == [type |-> type, text |-> "", value |-> value]

\* Expression::Identifier of the parser, the node the evaluator calls Column
Identifier(name) == Column(name)

\* a variant of precedence in which + and - bind tighter than * and /
precedence_AdditiveFirst(op) ==
    CASE op = "Or" -> 2
      [] op = "And" -> 3
      [] op \in {"Add", "Subtract"} -> 10
      [] op \in {"Multiply", "Divide"} -> 7
      [] OTHER -> 5

precedence(op) ==
    CASE op = "Or" -> 2
      [] op = "And" -> 3
      [] op \in {"Add", "Subtract"} -> 7
      [] op \in {"Multiply", "Divide"} -> 10
      [] OTHER -> 5

ParseOk(expr, pos) == [res |-> "ok", expr |-> expr, pos |-> pos]

ParseErr(pos) == [res |-> "err", expr |-> Literal(Null), pos |-> pos]

\* lexer.peek() is Some(Ok(token))
PeekOk(tokens, pos) == pos < Len(tokens) /\ tokens[pos + 1].type # "Error"

\* peek_binary_op: the operator of the next token, "none" for an Err
peek_binary_op(tokens, pos) ==
    LET t == tokens[pos + 1]
    IN  IF ~PeekOk(tokens, pos) THEN "none"
        ELSE CASE t.type = "Equal" -> "Equal"
               [] t.type = "NotEqual" -> "NotEqual"
               [] t.type = "GreaterThan" -> "GreaterThan"
               [] t.type = "LessThan" -> "LessThan"
               [] t.type = "GreaterThanEqual" -> "GreaterThanEqual"
               [] t.type = "LessThanEqual" -> "LessThanEqual"
               [] t.type = "Plus" -> "Add"
               [] t.type = "Minus" -> "Subtract"
               [] t.type = "Asterisk" -> "Multiply"
               [] t.type = "Slash" -> "Divide"
               [] t = TokenKeyword("And") -> "And"
               [] t = TokenKeyword("Or") -> "Or"
               [] OTHER -> "none"

\* peek_is(expected)
peek_is(tokens, pos, expected) == PeekOk(tokens, pos) /\ tokens[pos + 1] = expected

\* parse_is_postfix(expr) at pos
parse_is_postfix(tokens, pos, expr) ==
    LET is_negated == peek_is(tokens, pos + 1, TokenKeyword("Not"))
        at == IF is_negated THEN pos + 2 ELSE pos + 1
        t == tokens[at + 1]
    IN  IF ~peek_is(tokens, pos, TokenKeyword("Is")) THEN ParseOk(expr, pos)
        ELSE IF at >= Len(tokens) THEN ParseErr(at)
        ELSE IF t.type = "Keyword" /\ t.text \in {"True", "False", "Null"}
        THEN ParseOk(Is(expr, t.text, is_negated), at + 1)
        ELSE ParseErr(at + 1)

RECURSIVE parse_expression(_, _, _)
\* parse_primary at pos; next_token takes an item also when it is an error
parse_primary(tokens, pos) ==
    LET t == tokens[pos + 1]
        inner == parse_expression(tokens, pos + 1, 0)
    IN  IF pos >= Len(tokens) THEN ParseErr(pos)
        ELSE IF t.type = "Keyword" /\ t.text \in {"True", "False"}
        THEN parse_is_postfix(tokens, pos + 1, Literal(Bool(t.text = "True")))
        ELSE IF t.type \in {"Integer", "Float", "String"}
        THEN parse_is_postfix(tokens, pos + 1, Literal(t.value))
        ELSE IF t.type = "Identifier"
        THEN parse_is_postfix(tokens, pos + 1, Identifier(t.text))
        ELSE IF t.type = "Asterisk"
        THEN parse_is_postfix(tokens, pos + 1, Identifier("*"))
        ELSE IF t.type = "LeftParen"
        THEN IF inner.res = "err" THEN inner
             ELSE IF inner.pos >= Len(tokens) THEN ParseErr(inner.pos)
             ELSE IF tokens[inner.pos + 1].type = "RightParen"
             THEN parse_is_postfix(tokens, inner.pos + 1, inner.expr)
             ELSE ParseErr(inner.pos + 1)
        ELSE ParseErr(pos + 1)

\* the while loop of parse_expression with lhs parsed up to pos
RECURSIVE ParseOperators(_, _, _, _)
ParseOperators(tokens, pos, lhs, min_prec) ==
    LET op == peek_binary_op(tokens, pos)
        rhs == parse_expression(tokens, pos + 1, precedence(op) + 1)
    IN  IF op = "none" THEN ParseOk(lhs, pos)
        ELSE IF precedence(op) < min_prec THEN ParseOk(lhs, pos)
        ELSE IF rhs.res = "err" THEN rhs
        ELSE ParseOperators(tokens, rhs.pos, BinaryOp(lhs, op, rhs.expr), min_prec)

parse_expression(tokens, pos, min_prec) ==
    LET lhs == parse_primary(tokens, pos)
    IN  IF lhs.res = "err" THEN lhs
        ELSE ParseOperators(tokens, lhs.pos, lhs.expr, min_prec)

\* next_token() is Ok(token): there is a next item and it is no lexer error
NextOk(tokens, pos) == PeekOk(tokens, pos)

\* what parsing a statement returns: the targets, the table, the WHERE
\* expression if there is one, the position after the last token of the
\* statement (last) and the position of the lexer (pos)
StatementOk(select_list, table_name, has_where, where_clause, last, pos) ==
    [res |-> "ok", select_list |-> select_list, table_name |-> table_name,
     has_where |-> has_where, where_clause |-> where_clause, last |-> last, pos |-> pos]

StatementErr ==
    [res |-> "err", select_list |-> <<>>, table_name |-> "", has_where |-> FALSE,
     where_clause |-> Literal(Null), last |-> 0, pos |-> 0]

\* parse_targets from pos on, columns being the targets collected so far
RECURSIVE parse_targets(_, _, _)
parse_targets(tokens, pos, columns) ==
    IF PeekOk(tokens, pos) /\ tokens[pos + 1] = TokenKeyword("From")
    THEN [res |-> "ok", columns |-> columns, pos |-> pos]
    ELSE \* one pass of the loop
         CHOOSE out \in
           { IF expr.res = "err" THEN [res |-> "err", columns |-> columns, pos |-> expr.pos]
             ELSE IF expr.expr = Identifier("*")
             THEN parse_targets(tokens, expr.pos, Append(columns, [kind |-> "Star"]))
             ELSE IF peek_is(tokens, expr.pos, TokenKeyword("As"))
             THEN \* AS must be followed by an identifier
                  IF NextOk(tokens, expr.pos + 1) /\ tokens[expr.pos + 2].type = "Identifier"
                  THEN parse_targets(tokens,
                           IF peek_is(tokens, expr.pos + 2, Token("Comma"))
                           THEN expr.pos + 3 ELSE expr.pos + 2,
                           Append(columns, [kind |-> "Expression", expr |-> expr.expr,
                                            alias |-> tokens[expr.pos + 2].text]))
                  ELSE [res |-> "err", columns |-> columns, pos |-> expr.pos + 1]
             ELSE IF PeekOk(tokens, expr.pos) /\ tokens[expr.pos + 1].type = "Identifier"
             THEN parse_targets(tokens,
                      IF peek_is(tokens, expr.pos + 1, Token("Comma"))
                      THEN expr.pos + 2 ELSE expr.pos + 1,
                      Append(columns, [kind |-> "Expression", expr |-> expr.expr,
                                       alias |-> tokens[expr.pos + 1].text]))
             ELSE parse_targets(tokens,
                      IF peek_is(tokens, expr.pos, Token("Comma"))
                      THEN expr.pos + 1 ELSE expr.pos,
                      Append(columns, [kind |-> "Expression", expr |-> expr.expr,
                                       alias |-> ""])) :
                 expr \in {parse_expression(tokens, pos, 0)} } : TRUE

\* parse_select_statement with the lexer at pos, SELECT being the next token
parse_select_statement(tokens, pos) ==
    CHOOSE out \in
      { IF select_list.res = "err" THEN StatementErr
        \* expect_keyword(From), then expect_identifier
        ELSE IF ~(NextOk(tokens, select_list.pos + 1)
                  /\ tokens[select_list.pos + 2].type = "Identifier")
        THEN StatementErr
        \* expect_keyword(Where).ok(): the next token, whatever it is, is taken
        \* from the lexer
        ELSE IF peek_is(tokens, select_list.pos + 2, TokenKeyword("Where"))
        THEN CHOOSE stmt \in
               { IF where_clause.res = "err" THEN StatementErr
                 ELSE StatementOk(select_list.columns, tokens[select_list.pos + 2].text,
                                  TRUE, where_clause.expr, where_clause.pos,
                                  where_clause.pos) :
                     where_clause \in {parse_expression(tokens, select_list.pos + 3, 0)} } : TRUE
        ELSE StatementOk(select_list.columns, tokens[select_list.pos + 2].text,
                         FALSE, Literal(Null), select_list.pos + 2,
                         IF select_list.pos + 2 < Len(tokens)
                         THEN select_list.pos + 3 ELSE select_list.pos + 2) :
            select_list \in {parse_targets(tokens, pos + 1, <<>>)} } : TRUE

\* SqlParser::parse of a token stream that does not start with CREATE
parse(tokens) ==
    IF ~PeekOk(tokens, 0) THEN StatementErr
    ELSE IF tokens[1] = TokenKeyword("Select") THEN parse_select_statement(tokens, 0)
    ELSE StatementErr

(***************************************************************************)
(* The lexer (src/src/sql/lexer.rs).  The input is a sequence of ASCII     *)
(* characters, each a string of length one; rest is what is left of it.    *)
(* The byte position, which only error messages show, is left out.         *)
(***************************************************************************)
Lowercase == << "a", "b", "c", "d", "e", "f", "g", "h", "i", "j", "k", "l", "m", "n", "o", "p", "q", "r", "s", "t", "u", "v", "w", "x", "y", "z" >>

Uppercase == << "A", "B", "C", "D", "E", "F", "G", "H", "I", "J", "K", "L", "M", "N", "O", "P", "Q", "R", "S", "T", "U", "V", "W", "X", "Y", "Z" >>

Digits == << "0", "1", "2", "3", "4", "5", "6", "7", "8", "9" >>

\* char::is_whitespace on ASCII
is_whitespace(c) == c \in {" ", "\t", "\n", "\r"}

is_ascii_digit(c) == \E i \in 1..Len(Digits) : Digits[i] = c

\* char::is_alphabetic on ASCII
is_alphabetic(c) == \E i \in 1..Len(Lowercase) : c \in {Lowercase[i], Uppercase[i]}

to_ascii_lowercase(c) ==
    IF \E i \in 1..Len(Uppercase) : Uppercase[i] = c
    THEN Lowercase[CHOOSE i \in 1..Len(Uppercase) : Uppercase[i] = c]
    ELSE c

\* the str of a sequence of characters
RECURSIVE Str(_)
Str(chars) == IF chars = <<>> THEN "" ELSE chars[1] \o Str(Tail(chars))

\* the str of the characters in lower case
RECURSIVE LowerStr(_)
LowerStr(chars) ==
    IF chars = <<>> THEN "" ELSE to_ascii_lowercase(chars[1]) \o LowerStr(Tail(chars))

\* the variants of Keyword by the lower case of their names (strum's
\* ascii_case_insensitive EnumString)
Keywords ==
    [ create |-> "Create", table |-> "Table", drop |-> "Drop", alter |-> "Alter",
      select |-> "Select", insert |-> "Insert", update |-> "Update", delete |-> "Delete",
      where |-> "Where", from |-> "From", into |-> "Into", values |-> "Values",
      join |-> "Join", inner |-> "Inner", left |-> "Left", right |-> "Right",
      on |-> "On", int |-> "Int", integer |-> "Integer", varchar |-> "Varchar",
      timestamp |-> "Timestamp", boolean |-> "Boolean", true |-> "True", false |-> "False",
      null |-> "Null", as |-> "As", and |-> "And", or |-> "Or",
      is |-> "Is", not |-> "Not", distinct |-> "Distinct" ]

\* the decimal n / 10^scale that the text of a float literal denotes; the
\* rounding of str::parse::<f64> to the nearest double is left out
Decimal(n, scale) == [tag |-> "Decimal", i |-> n, s |-> <<scale>>, b |-> FALSE]

\* the first index from i on, 0-based, of a character of rest in the set
\* stops, Len(rest) if there is none (str::find(..).unwrap_or(len))
RECURSIVE FindFrom(_, _, _)
FindFrom(rest, stops, i) ==
    IF i >= Len(rest) \/ rest[i + 1] \in stops THEN i
    ELSE FindFrom(rest, stops, i + 1)

\* skip_whitespace: what is left of rest
RECURSIVE skip_whitespace(_)
skip_whitespace(rest) ==
    IF rest # <<>> /\ is_whitespace(rest[1]) THEN skip_whitespace(Tail(rest)) ELSE rest

\* what next() returns and leaves: res is "ok" for Some(Ok(token)), "err" for
\* Some(Err(_)), "none" for None, "panic" for an abort
LexOut(res, token, rest) == [res |-> res, token |-> token, rest |-> rest]

\* the characters at which consume_word ends a word
WordEnds == {" ", "\t", "\n", "\r", ",", ";", "=", "*", "(", ")", "<", ">", "!"}

\* consume_word, rest starting with a letter, and what next() makes of the word
consume_word(rest) ==
    LET word_index == FindFrom(rest, WordEnds, 0)
        word == Slice(rest, 0, word_index)
    IN  LexOut("ok",
               IF LowerStr(word) \in DOMAIN Keywords
               THEN TokenKeyword(Keywords[LowerStr(word)])
               ELSE TokenIdentifier(Str(word)),
               Slice(rest, word_index, Len(rest)))

\* the loop of consume_string from end_index
RECURSIVE StringEnd(_, _, _)
StringEnd(rest, closing, end_index) ==
    IF end_index < Len(rest) /\ rest[end_index + 1] # closing
    THEN StringEnd(rest, closing, end_index + 1)
    ELSE end_index

\* consume_string(closing), rest starting with the opening quote, and the
\* token next() makes of it; the slice rest[end_index + 1..] is out of range
\* when no closing quote was found
consume_string(rest, closing) ==
    LET end_index == StringEnd(rest, closing, 1)
        string_value == Slice(rest, 1, end_index)
    IN  IF end_index + 1 > Len(rest)
        THEN LexOut("panic", Token("Error"), rest)
        ELSE LexOut("ok",
                    IF closing = "'"
                    THEN [type |-> "String", text |-> Str(string_value), value |-> Null]
                    ELSE TokenIdentifier(Str(string_value)),
                    Slice(rest, end_index + 1, Len(rest)))

\* the integer the digits denote
RECURSIVE ParseDigits(_, _)
ParseDigits(chars, acc) ==
    IF chars = <<>> THEN acc
    ELSE ParseDigits(Tail(chars),
                     acc * 10 + (CHOOSE d \in 0..9 : Digits[d + 1] = chars[1]))

\* consume_number, rest starting with a digit.  The inputs are shorter than
\* the 19 digits at which parse::<i64> overflows.
consume_number(rest) ==
    LET number_end == FindFrom(rest, {c \in {rest[i] : i \in 1..Len(rest)} :
                                          ~is_ascii_digit(c) /\ c # "."}, 0)
        number_str == Slice(rest, 0, number_end)
        dots == {i \in 1..number_end : number_str[i] = "."}
        is_float == dots # {}
        after == Slice(rest, number_end, Len(rest))
    IN  IF ~is_float
        THEN LexOut("ok", TokenLiteral("Integer", Int64(ParseDigits(number_str, 0))), after)
        ELSE IF Cardinality(dots) > 1
        THEN LexOut("err", Token("Error"), after)
        ELSE LET dot == CHOOSE i \in dots : TRUE
             IN  LexOut("ok",
                        TokenLiteral("Float",
                            Decimal(ParseDigits(Slice(number_str, 0, dot - 1)
                                                    \o Slice(number_str, dot, number_end), 0),
                                    number_end - dot)),
                        after)

\* the tokens of one character
Symbols ==
    [ c \in {"(", ")", ",", "+", "-", "*", "/", ";", "="} |->
        CASE c = "(" -> "LeftParen" [] c = ")" -> "RightParen" [] c = "," -> "Comma"
          [] c = "+" -> "Plus" [] c = "-" -> "Minus" [] c = "*" -> "Asterisk"
          [] c = "/" -> "Slash" [] c = ";" -> "SemiColon" [] c = "=" -> "Equal" ]

\* Lexer::next on what is left of the input
Lexer_next(input) ==
    LET rest == skip_whitespace(input)
        char == rest[1]
        followed == Len(rest) > 1 /\ rest[2] = "="
    IN  IF rest = <<>> THEN LexOut("none", Token("Error"), rest)
        ELSE IF char \in DOMAIN Symbols
        THEN LexOut("ok", Token(Symbols[char]), Tail(rest))
        ELSE IF char = "<"
        THEN IF followed THEN LexOut("ok", Token("LessThanEqual"), Slice(rest, 2, Len(rest)))
             ELSE LexOut("ok", Token("LessThan"), Tail(rest))
        ELSE IF char = ">"
        THEN IF followed THEN LexOut("ok", Token("GreaterThanEqual"), Slice(rest, 2, Len(rest)))
             ELSE LexOut("ok", Token("GreaterThan"), Tail(rest))
        ELSE IF char = "!"
        THEN IF followed THEN LexOut("ok", Token("NotEqual"), Slice(rest, 2, Len(rest)))
             ELSE LexOut("err", Token("Error"), rest)
        ELSE IF char = "'" \/ char = "\""
        THEN consume_string(rest, char)
        ELSE IF is_ascii_digit(char) THEN consume_number(rest)
        ELSE IF is_alphabetic(char) THEN consume_word(rest)
        ELSE LexOut("err", Token("Error"), rest)

(***************************************************************************)
(* The analyzer (src/src/sql/analyzer.rs): the type of an expression over  *)
(* the fields of a table.  A ColumnType is "Int64", "Float64", "Text",     *)
(* "Bool" or "Null"; a binding returns res ("ok" or "err") and the type of *)
(* the analyzed expression.                                                *)
(***************************************************************************)
\* ColumnType::from(PhysicalType)
ColumnType_from(data_type) ==
    IF data_type.kind \in {"Text", "VarChar"} THEN "Text" ELSE data_type.kind

\* ColumnType::from(&ScalarValue)
ColumnType_of(value) == value.tag

\* the fields analyze_from makes of the columns of the table
ResolvedSchema(schema) ==
    [i \in 1..Len(schema) |->
        [name |-> schema[i].name, data_type |-> ColumnType_from(schema[i].data_type),
         is_nullable |-> schema[i].nullable]]

\* ResolvedSchema::find_column: the 0-based position, -1 for None
find_column(fields, name) == get_column_index(fields, name)

TypeOk(type) == [res |-> "ok", type |-> type]

TypeErr == [res |-> "err", type |-> "none"]

can_coerce(from, to) ==
    \/ from = to
    \/ (from = "Int64" /\ to = "Float64")
    \/ from = "Text"
    \/ to = "Text"

get_common_numeric_type(left, right) ==
    IF left = right THEN TypeOk(left)
    ELSE IF right = "Float64" \/ left = "Float64" THEN TypeOk("Float64")
    ELSE IF right = "Int64" \/ left = "Int64" THEN TypeOk("Int64")
    ELSE TypeErr

resolve_binary_op(left, op, right) ==
    IF op \in {"Equal", "GreaterThan", "LessThan", "GreaterThanEqual", "LessThanEqual",
               "NotEqual"} /\ can_coerce(left, right)
    THEN TypeOk("Bool")
    ELSE IF op \in {"Add", "Subtract", "Multiply", "Divide"}
    THEN get_common_numeric_type(left, right)
    ELSE IF op \in {"And", "Or"} /\ left = "Bool" /\ right = "Bool"
    THEN TypeOk("Bool")
    ELSE TypeErr

RECURSIVE bind_expression(_, _)
bind_expression(expr, input_schema) ==
    CASE expr.kind = "BinaryOp" ->
           LET left == bind_expression(expr.left, input_schema)
               right == bind_expression(expr.right, input_schema)
           IN  IF left.res = "err" THEN left
               ELSE IF right.res = "err" THEN right
               ELSE resolve_binary_op(left.type, expr.op, right.type)
      [] expr.kind = "Column" ->
           LET index == find_column(input_schema, expr.name)
           IN  IF index < 0 THEN TypeErr
               ELSE TypeOk(input_schema[index + 1].data_type)
      [] expr.kind = "Literal" ->
           IF expr.value.tag = "Null" THEN TypeErr
           ELSE TypeOk(ColumnType_of(expr.value))
      [] expr.kind = "Is" ->
           LET inner_analyzed == bind_expression(expr.expr, input_schema)
           IN  IF inner_analyzed.res = "err" THEN inner_analyzed
               ELSE IF expr.predicate \in {"True", "False"} /\ inner_analyzed.type # "Bool"
               THEN TypeErr
               ELSE TypeOk("Bool")

\* Analyzer::analyze_where: the plan node over the input plan, with the type
\* of its condition
analyze_where(where_expr, schema) ==
    CHOOSE out \in
        { IF analyzed_expr.res = "err"
          THEN [res |-> "err", node |-> "none", type |-> "none"]
          ELSE [res |-> "ok", node |-> "Filter", type |-> analyzed_expr.type] :
              analyzed_expr \in {bind_expression(where_expr, schema)} } : TRUE

(***************************************************************************)
(* The buffer pool (src/src/buffer_manager.rs).  buffer_pool maps a table  *)
(* name to its cached pages, a function from page ids to pages; a name     *)
(* with no entry and a name with no page are the same to every reader.     *)
(* files maps a table name to ./db/<name>.table: [exists, bytes].          *)
(***************************************************************************)
max_pages == 1000

\* pages with the entry of page_id set to p (HashMap::insert)
HashMap_insert(pages, page_id, p) ==
    [id \in (DOMAIN pages) \cup {page_id} |-> IF id = page_id THEN p ELSE pages[id]]

\* BufferManager::load_page_from_file: [res, page]; open fails on a missing
\* file, read_exact on a file that ends before the page does, and
\* PageHeader::from_bytes panics on a type byte it does not know
load_page_from_file(file, page_id) ==
    LET offset == page_id * PAGE_SIZE
        buffer == Slice(file.bytes, offset, offset + PAGE_SIZE)
    IN  IF ~file.exists \/ Len(file.bytes) < offset + PAGE_SIZE
        THEN [res |-> "err", page |-> NoPage]
        ELSE IF PageHeader_from_bytes_panics(buffer)
        THEN [res |-> "panic", page |-> NoPage]
        ELSE [res |-> "ok", page |-> Page_from_bytes(buffer)]

\* BufferManager::get_page on the pages and the file of one table: [res, pages]
get_page(pages, file, page_id) ==
    IF page_id \in DOMAIN pages
    THEN [res |-> "ok", pages |-> pages]
    ELSE LET l == load_page_from_file(file, page_id)
         IN  IF l.res = "ok"
             THEN [res |-> "ok", pages |-> HashMap_insert(pages, page_id, l.page)]
             ELSE [res |-> l.res, pages |-> pages]

\* the loop of get_free_page from page_id: the first id that has no page or
\* whose page has free_space() > size; -1 for None
RECURSIVE FindTarget(_, _, _)
FindTarget(pages, size, page_id) ==
    IF page_id >= max_pages THEN -1
    ELSE IF page_id \in DOMAIN pages
    THEN IF free_space(pages[page_id]) > size
         THEN page_id
         ELSE FindTarget(pages, size, page_id + 1)
    ELSE page_id

\* BufferManager::get_free_page: [res, pages, page_id, created]; created says
\* that the page was made by Page::new
get_free_page(pages, file, size) ==
    LET page_id == FindTarget(pages, size, 0)
        l == load_page_from_file(file, page_id)
    IN  IF page_id = -1
        THEN [res |-> "err", pages |-> pages, page_id |-> -1, created |-> FALSE]
        ELSE IF page_id \in DOMAIN pages
        THEN [res |-> "ok", pages |-> pages, page_id |-> page_id, created |-> FALSE]
        ELSE IF l.res = "panic"
        THEN [res |-> "panic", pages |-> pages, page_id |-> page_id, created |-> FALSE]
        ELSE IF l.res = "ok"
        THEN [res |-> "ok", pages |-> HashMap_insert(pages, page_id, l.page),
              page_id |-> page_id, created |-> FALSE]
        ELSE [res |-> "ok",
              pages |-> HashMap_insert(pages, page_id, Page_new(page_id, Table)),
              page_id |-> page_id, created |-> TRUE]

\* BufferManager::save_page: [res, pages, file].  File::create empties the
\* file; the seek past its end and the write leave zeros before the page.
\* (The directory ./db exists and the disk takes the write.)
save_page(pages, file, page_id) ==
    LET g == get_page(pages, file, page_id)
        offset == page_id * PAGE_SIZE
    IN  IF g.res # "ok"
        THEN [res |-> g.res, pages |-> pages, file |-> file]
        ELSE IF PageHeader_to_bytes_panics(g.pages[page_id].header)
        THEN [res |-> "panic", pages |-> g.pages, file |-> [exists |-> TRUE, bytes |-> <<>>]]
        ELSE [res |-> "ok", pages |-> g.pages,
              file |-> [exists |-> TRUE,
                        bytes |-> Rep(offset, 0) \o Page_to_bytes(g.pages[page_id])]]

(***************************************************************************)
(* The database facade (src/src/db/database.rs).  tables maps a name to    *)
(* [exists, schema].                                                       *)
(***************************************************************************)
get_rows_max_pages == 1000

\* Database::insert_row on the table entry, the pages and the file of one table:
\* [res, error, pages, file, page_id, item_id, needed, free, created, got_page].
\* needed is encoded_data.len(), free the free_space() of the page that
\* get_free_page returned, got_page whether it returned one.
insert_row(table, pages, file, row) ==
    LET encoded_data == encode_row(table.schema, row)
        size == Len(encoded_data.bytes)
        f == get_free_page(pages, file, size)
        free_page == f.pages[f.page_id]
        a == add_data(free_page, encoded_data.bytes)
        pages1 == [f.pages EXCEPT ![f.page_id] = a.page]
        s == save_page(pages1, file, f.page_id)
        Out(res, error, ps, fl, got, item_id) ==
            [res |-> res, error |-> error, pages |-> ps, file |-> fl,
             page_id |-> IF got THEN f.page_id ELSE -1, item_id |-> item_id,
             needed |-> IF got THEN size ELSE 0,
             free |-> IF got THEN free_space(free_page) ELSE 0,
             created |-> got /\ f.created, got_page |-> got]
    IN  IF ~table.exists THEN Out("panic", "none", pages, file, FALSE, -1)
        ELSE IF encoded_data.panic THEN Out("panic", "none", pages, file, FALSE, -1)
        ELSE IF f.res = "err" THEN Out("err", "NoFreePage", pages, file, FALSE, -1)
        ELSE IF f.res = "panic" THEN Out("panic", "none", pages, file, FALSE, -1)
        ELSE IF ~a.ok THEN Out("err", "NotEnoughSpace", f.pages, file, TRUE, -1)
        ELSE IF s.res # "ok" THEN Out(s.res, "Io", s.pages, s.file, TRUE, -1)
        ELSE Out("ok", "none", s.pages, s.file, TRUE, a.item_id)

\* the item loop of get_rows over the pointers of one page, from position k:
\* [res, rows].  The slice of page.data, the unwrap of the table and the
\* expect of the decoded row each panic.
RECURSIVE ScanItems(_, _, _, _)
ScanItems(table, p, pointers, k) ==
    LET item_pointer == pointers[k]
        offset == item_pointer.offset - PageHeaderSIZE
        length == item_pointer.length
        decoded_row == decode_row(table.schema, Slice(p.data, offset, offset + length))
        rest == ScanItems(table, p, pointers, k + 1)
    IN  IF k > Len(pointers) THEN [res |-> "ok", rows |-> <<>>]
        ELSE IF is_deleted(item_pointer) THEN rest
        ELSE IF offset < 0 \/ offset + length > Len(p.data) \/ ~table.exists
                  \/ decoded_row.res # "ok"
        THEN [res |-> "panic", rows |-> <<>>]
        ELSE [res |-> rest.res,
              rows |-> IF rest.res = "ok" THEN <<decoded_row.values>> \o rest.rows ELSE <<>>]

\* the page loop of get_rows from current_page_id: [res, pages, rows]
RECURSIVE ScanPages(_, _, _, _)
ScanPages(table, pages, file, current_page_id) ==
    LET g == get_page(pages, file, current_page_id)
        items == ScanItems(table, g.pages[current_page_id],
                           item_pointers(g.pages[current_page_id]), 1)
        rest == ScanPages(table, g.pages, file, current_page_id + 1)
    IN  IF current_page_id >= get_rows_max_pages
        THEN [res |-> "ok", pages |-> pages, rows |-> <<>>]
        ELSE IF g.res = "err" THEN [res |-> "ok", pages |-> pages, rows |-> <<>>]
        ELSE IF g.res = "panic" THEN [res |-> "panic", pages |-> pages, rows |-> <<>>]
        ELSE IF items.res = "panic" THEN [res |-> "panic", pages |-> g.pages, rows |-> <<>>]
        ELSE [res |-> rest.res, pages |-> rest.pages,
              rows |-> IF rest.res = "ok" THEN items.rows \o rest.rows ELSE <<>>]

\* Database::get_rows: [res, pages, rows]
get_rows(table, pages, file) == ScanPages(table, pages, file, 0)

\* the Filter node over input_rows from position k on: [res, rows].  An
\* evaluation that returns an error counts as false (unwrap_or); one that
\* panics ends the query.
RECURSIVE FilterRows(_, _, _, _)
FilterRows(predicate, input_rows, schema, k) ==
    IF k > Len(input_rows) THEN [res |-> "ok", rows |-> <<>>]
    ELSE CHOOSE out \in
             { IF e.res = "panic" \/ rest.res = "panic"
               THEN [res |-> "panic", rows |-> <<>>]
               ELSE [res |-> "ok",
                     rows |-> (IF e.res = "ok" /\ e.value THEN <<input_rows[k]>> ELSE <<>>)
                                  \o rest.rows] :
                   e \in {PredicateEvaluator_evaluate(predicate, input_rows[k], schema)},
                   rest \in {FilterRows(predicate, input_rows, schema, k + 1)} } : TRUE

\* Database::execute_query of SELECT * FROM table WHERE predicate, the
\* statement given as the parser returns it: [res, error, pages, rows].  The
\* plan is a Filter over a SeqScan; the physical planner looks the table up.
execute_query(table, pages, file, predicate) ==
    IF ~table.exists
    THEN [res |-> "err", error |-> "InvalidQuery", pages |-> pages, rows |-> <<>>]
    ELSE CHOOSE out \in
             { IF scan.res # "ok"
               THEN [res |-> scan.res, error |-> "none", pages |-> scan.pages, rows |-> <<>>]
               ELSE CHOOSE filtered \in
                        { [res |-> kept.res, error |-> "none", pages |-> scan.pages,
                           rows |-> kept.rows] :
                              kept \in {FilterRows(predicate, scan.rows, table.schema, 1)} } :
                        TRUE :
                   scan \in {get_rows(table, pages, file)} } : TRUE

(***************************************************************************)
(* PageSpec: one page, driven through its public operations.               *)
(***************************************************************************)
\* the payloads offered to add_data: empty, short, one of which two share a
\* page with six bytes to spare, the largest that fits a fresh page, one byte
\* more, and a whole page
Payloads ==
    << <<>>, <<72, 105, 33>>, Rep(4075, 65), Rep(8162, 7), Rep(8163, 9),
       Rep(PAGE_SIZE, 0) >>

\* one page of each serialisable type and one B-tree page
InitialPages ==
    { Page_new(300, Table), Page_new(1, Catalog), Page_new(3, BTreeLeaf(4, None)) }

\* Result<T>: Ok or Err
Res(ok) == IF ok THEN "ok" ELSE "err"

\* what an operation returned: res is "ok", "err" or "panic"; before is the
\* header the operation found
Result(op, res, item_id, payload, data, before) ==
    [op |-> op, res |-> res, item_id |-> item_id, payload |-> payload,
     data |-> data, before |-> before]

\* the variables of the page when another part of the program is under test
PageIdle ==
    /\ page = NoPage
    /\ added = <<>>
    /\ pres = Result("none", "ok", -1, 0, <<>>, PageHeader_new(0, Table))
    /\ reconstructed = NoPage

\* the variables of the codec when another part of the program is under test
CodecIdle ==
    /\ cschema = <<>>
    /\ crow = <<>>
    /\ cpc = "idle"
    /\ cvalid = "none"
    /\ cenc = [panic |-> FALSE, bytes |-> <<>>]
    /\ cdec = [res |-> "none", values |-> <<>>]

\* the table names of the model
Names == {"docs"}

NoFile == [exists |-> FALSE, bytes |-> <<>>]

NoTable == [exists |-> FALSE, schema |-> <<>>]

\* what a facade call returned: res is "ok", "err" or "panic"; row is the index
\* in DbRows of the row given to insert_row; the rest as returned by insert_row
\* and get_rows
DbResult(op, name, res, error, row, r, rows) ==
    [op |-> op, name |-> name, res |-> res, error |-> error, row |-> row, predicate |-> 0,
     page_id |-> r.page_id, item_id |-> r.item_id, needed |-> r.needed,
     free |-> r.free, created |-> r.created, got_page |-> r.got_page, rows |-> rows]

NoInsert ==
    [page_id |-> -1, item_id |-> -1, needed |-> 0, free |-> 0,
     created |-> FALSE, got_page |-> FALSE]

\* Database::new: no table, an empty buffer pool; no table file yet.  Also the
\* variables of the database while another part of the program is under test.
DbStart ==
    /\ tables = [n \in Names |-> NoTable]
    /\ buffer_pool = [n \in Names |-> <<>>]
    /\ files = [n \in Names |-> NoFile]
    /\ inserted = [n \in Names |-> <<>>]
    /\ created = [n \in Names |-> 0]
    /\ dres = DbResult("new", "", "ok", "none", 0, NoInsert, <<>>)

\* what an evaluation returned: mode is "expression" or "predicate", value the
\* Value of the expression, keep the bool of the predicate
NoEval ==
    [mode |-> "none", res |-> "none", error |-> "none", value |-> Null, keep |-> FALSE,
     calls |-> 0]

\* the variables of the evaluator while another part of the program is under test
EvalIdle ==
    /\ eexpr = Literal(Null)
    /\ erow = <<>>
    /\ overflow_checks = FALSE
    /\ eout = NoEval

\* what a parse returned
NoParse ==
    [op |-> "none", res |-> "none", select_list |-> <<>>, table_name |-> "",
     has_where |-> FALSE, expr |-> Literal(Null), last |-> 0, pos |-> 0]

\* the variables of the parser while another part of the program is under test
ParseIdle ==
    /\ ptokens = <<>>
    /\ pout = NoParse

\* what a binding returned
NoBinding == [op |-> "none", res |-> "none", node |-> "none", type |-> "none"]

\* the variables of the analyzer while another part of the program is under test
AnalyzeIdle ==
    /\ aexpr = Literal(Null)
    /\ aout = NoBinding

(***************************************************************************)
(* The B+ tree (src/src/storage/btree.rs).  A node is a record: a leaf     *)
(* holds entries, pairs of a key and a value, an internal node keys and    *)
(* children.  Positions are 0-based as in the code.                        *)
(***************************************************************************)
min_degree == 3

\* Option::None of the root
NoRoot == [kind |-> "None", entries |-> <<>>, next_node |-> "None", keys |-> <<>>,
           children |-> <<>>]

LeafNode(entries, next_node) ==
    [kind |-> "Leaf", entries |-> entries, next_node |-> next_node, keys |-> <<>>,
     children |-> <<>>]

InternalNode(keys, children) ==
    [kind |-> "Internal", entries |-> <<>>, next_node |-> "None", keys |-> keys,
     children |-> children]

\* Vec::insert(index, element)
Vec_insert(v, index, element) ==
    Slice(v, 0, index) \o <<element>> \o Slice(v, index, Len(v))

\* while index < keys.len() && keys[index] < key { index += 1 }
RECURSIVE SkipSmaller(_, _, _)
SkipSmaller(keys, key, index) ==
    IF index < Len(keys) /\ keys[index + 1] < key
    THEN SkipSmaller(keys, key, index + 1)
    ELSE index

\* the keys of the entries of a leaf
EntryKeys(entries) == [i \in 1..Len(entries) |-> entries[i][1]]

BTree_is_node_full(node) ==
    LET max_keys == 2 * min_degree - 1
    IN  IF node.kind = "Leaf" THEN Len(node.entries) = max_keys
        ELSE Len(node.keys) = max_keys

\* split_child_helper(parent, child_index), and split_child, which has the
\* same body: the parent with the child split in two
split_child_helper(parent, child_index) ==
    LET mid_index == min_degree - 1
        full == parent.children[child_index + 1]
        \* a leaf: the right half moves to a new leaf, whose first key is copied
        \* into the parent; the new leaf takes the next_node of the full one
        new_leaf == LeafNode(Slice(full.entries, mid_index, Len(full.entries)), full.next_node)
        full_leaf == LeafNode(Slice(full.entries, 0, mid_index), "None")
        \* an internal node: the keys and children after the middle move to a
        \* new node, the middle key moves into the parent
        new_internal == InternalNode(Slice(full.keys, mid_index + 1, Len(full.keys)),
                                     Slice(full.children, mid_index + 1, Len(full.children)))
        full_internal == InternalNode(Slice(full.keys, 0, mid_index),
                                      Slice(full.children, 0, mid_index + 1))
    IN  IF full.kind = "Leaf"
        THEN InternalNode(
                 Vec_insert(parent.keys, child_index, new_leaf.entries[1][1]),
                 Vec_insert([parent.children EXCEPT ![child_index + 1] = full_leaf],
                            child_index + 1, new_leaf))
        ELSE InternalNode(
                 Vec_insert(parent.keys, child_index, full.keys[mid_index + 1]),
                 Vec_insert([parent.children EXCEPT ![child_index + 1] = full_internal],
                            child_index + 1, new_internal))

\* insert_non_full_helper(node, key, val): the node after the insertion
RECURSIVE insert_non_full_helper(_, _, _)
insert_non_full_helper(node, key, val) ==
    IF node.kind = "Leaf"
    THEN [node EXCEPT !.entries =
              Vec_insert(@, SkipSmaller(EntryKeys(node.entries), key, 0), <<key, val>>)]
    ELSE LET index == SkipSmaller(node.keys, key, 0)
             child_is_full == BTree_is_node_full(node.children[index + 1])
             internal == IF child_is_full THEN split_child_helper(node, index) ELSE node
             index1 == IF child_is_full /\ internal.keys[index + 1] < key
                       THEN index + 1 ELSE index
         IN  [internal EXCEPT !.children[index1 + 1] =
                  insert_non_full_helper(@, key, val)]

\* BTree::insert(key, val): the root after the call
BTree_insert(root, key, val) ==
    IF root.kind = "None" THEN LeafNode(<<<<key, val>>>>, "None")
    ELSE IF BTree_is_node_full(root)
    THEN insert_non_full_helper(split_child_helper(InternalNode(<<>>, <<root>>), 0), key, val)
    ELSE insert_non_full_helper(root, key, val)

\* an Option<&V>
NoneValue == [found |-> FALSE, value |-> 0]

SomeValue(v) == [found |-> TRUE, value |-> v]

\* get_node(node, key); children.get(index) is None past the last child
RECURSIVE get_node(_, _)
get_node(node, key) ==
    IF node.kind = "Leaf"
    THEN IF \E i \in 1..Len(node.entries) : node.entries[i][1] = key
         THEN SomeValue(node.entries[CHOOSE i \in 1..Len(node.entries) :
                                         /\ node.entries[i][1] = key
                                         /\ \A j \in 1..(i - 1) : node.entries[j][1] # key][2])
         ELSE NoneValue
    ELSE IF node.kind = "Internal"
    THEN LET index == SkipSmaller(node.keys, key, 0)
         IN  IF index < Len(node.children)
             THEN get_node(node.children[index + 1], key)
             ELSE NoneValue
    ELSE NoneValue

\* contains_key_node(node, key)
RECURSIVE contains_key_node(_, _)
contains_key_node(node, key) ==
    IF node.kind = "Leaf"
    THEN \E i \in 1..Len(node.entries) : node.entries[i][1] = key
    ELSE IF node.kind = "Internal"
    THEN LET index == SkipSmaller(node.keys, key, 0)
         IN  IF index < Len(node.children)
             THEN contains_key_node(node.children[index + 1], key)
             ELSE FALSE
    ELSE FALSE

\* what a call on the tree returned
NoCall == [op |-> "none", key |-> 0, found |-> FALSE, value |-> 0]

\* the variables of the tree while another part of the program is under test
TreeIdle ==
    /\ btree = NoRoot
    /\ bkeys = {}
    /\ bout = NoCall

\* what next() returned: the res and the token of LexOut
NoToken == [res |-> "start", token |-> Token("Error")]

\* the variables of the lexer while another part of the program is under test
LexIdle ==
    /\ linput = <<>>
    /\ lrest = <<>>
    /\ ltokens = <<>>
    /\ lout = NoToken

SqlIdle == EvalIdle /\ ParseIdle /\ AnalyzeIdle /\ LexIdle

PageInit ==
    /\ page \in InitialPages
    /\ added = <<>>
    /\ pres = Result("none", "ok", -1, 0, <<>>, PageHeader_new(0, Table))
    /\ reconstructed = NoPage
    /\ CodecIdle
    /\ DbStart
    /\ SqlIdle
    /\ TreeIdle

\* page.add_data(Payloads[k])
PageAddData(k) ==
    /\ pres.res # "panic"
    /\ page.header.item_count < MaxItems
    /\ LET r == add_data(page, Payloads[k])
       IN  /\ page' = r.page
           /\ added' = IF r.ok THEN Append(added, k) ELSE added
           /\ pres' = Result("add_data", Res(r.ok), r.item_id, k, <<>>, page.header)
    /\ reconstructed' = NoPage
    /\ UNCHANGED <<codecVars, dbVars, sqlVars, treeVars>>

\* page.get_item(item_id)
PageGetItem(item_id) ==
    /\ pres.res # "panic"
    /\ LET r == get_item(page, item_id)
       IN  pres' = Result("get_item", Res(r.ok), item_id, 0, r.data, page.header)
    /\ reconstructed' = NoPage
    /\ UNCHANGED <<page, added, codecVars, dbVars, sqlVars, treeVars>>

\* page.delete_item(item_id)
PageDeleteItem(item_id) ==
    /\ pres.res # "panic"
    /\ LET r == delete_item(page, item_id)
       IN  /\ page' = r.page
           /\ pres' = Result("delete_item", Res(r.ok), item_id, 0, <<>>, page.header)
    /\ reconstructed' = NoPage
    /\ UNCHANGED <<added, codecVars, dbVars, sqlVars, treeVars>>

\* Page::from_bytes(page.to_bytes())
PageToFromBytes ==
    /\ pres.res # "panic"
    /\ IF PageHeader_to_bytes_panics(page.header)
       THEN /\ pres' = Result("to_bytes", "panic", -1, 0, <<>>, page.header)
            /\ reconstructed' = NoPage
       ELSE LET bytes == Page_to_bytes(page)
            IN  IF PageHeader_from_bytes_panics(bytes)
                THEN /\ pres' = Result("from_bytes", "panic", -1, 0, <<>>, page.header)
                     /\ reconstructed' = NoPage
                ELSE /\ pres' = Result("from_bytes", "ok", -1, 0, <<>>, page.header)
                     /\ reconstructed' = Page_from_bytes(bytes)
    /\ UNCHANGED <<page, added, codecVars, dbVars, sqlVars, treeVars>>

PageNext ==
    \/ \E k \in 1..Len(Payloads) : PageAddData(k)
    \/ \E item_id \in 0..MaxItems : PageGetItem(item_id)
    \/ \E item_id \in 0..MaxItems : PageDeleteItem(item_id)
    \/ PageToFromBytes

PageSpec == PageInit /\ [][PageNext]_vars

(***************************************************************************)
(* CodecSpec: one row against one schema: validated, encoded, decoded.     *)
(***************************************************************************)
\* users(id Int64 NOT NULL, name VarChar(n), active Bool, score Float64,
\*       bio Text, created Timestamp), all but id nullable
Users ==
    << ColumnDef("id", DataType("Int64"), FALSE),
       ColumnDef("name", VarChar(MaxVarChar), TRUE),
       ColumnDef("active", DataType("Bool"), TRUE),
       ColumnDef("score", DataType("Float64"), TRUE),
       ColumnDef("bio", DataType("Text"), TRUE),
       ColumnDef("created", DataType("Timestamp"), TRUE) >>

\* the values offered for each column of Users, the invalid ones included: a
\* Null id, a name one byte too long, an Int64 score, a value for created
UsersValues ==
    << { Int64(1), Int64(-2), Int64(2147483647), Null },
       { Text(<<65, 108>>), Text(Rep(MaxVarChar, 66)), Text(Rep(MaxVarChar + 1, 67)), Null },
       { Bool(TRUE), Bool(FALSE), Null },
       { Float64(<<0, 1023, 524288, 0, 0>>), Float64(<<0, 2047, 524288, 0, 1>>),
         Float64(<<1, 0, 0, 0, 0>>), Int64(3), Null },
       { Text(<<>>), Text(<<195, 169, 226, 130, 172>>), Null },
       { Null, Int64(0) } >>

UsersRows ==
    UsersValues[1] \X UsersValues[2] \X UsersValues[3] \X UsersValues[4]
        \X UsersValues[5] \X UsersValues[6]

\* a schema of WideColumns nullable columns whose types go round
WideKinds == << DataType("Int64"), DataType("Bool"), DataType("Text"),
                DataType("Float64"), VarChar(MaxVarChar) >>

Wide ==
    [i \in 1..WideColumns |-> ColumnDef("c", WideKinds[((i - 1) % Len(WideKinds)) + 1], TRUE)]

\* a value of each type of WideKinds
WideSamples == << Int64(-77), Bool(TRUE), Text(<<104, 105>>),
                  Float64(<<1, 1024, 0, 65535, 7>>), Text(<<118>>) >>

\* the row of Wide whose Null columns are those of the bit mask
WideRow(mask) ==
    [i \in 1..WideColumns |->
        IF (mask \div (2 ^ (i - 1))) % 2 = 1 THEN Null
        ELSE WideSamples[((i - 1) % Len(WideSamples)) + 1]]

\* rows of another length than their schema: each prefix of a row of Users, and
\* a row of Wide followed by Nulls up to the first index past the bitmap
ShortRow == << Int64(9), Null, Bool(TRUE), Null, Text(<<120>>), Null >>

WrongLength ==
    { [schema |-> Users, row |-> SubSeq(ShortRow, 1, n)] : n \in 0..(Len(Users) - 1) }
    \cup { [schema |-> Wide, row |-> WideRow(0) \o Rep(n, Null)] :
             n \in 1..(8 * div_ceil(WideColumns, 8) - WideColumns + 1) }
    \cup { [schema |-> <<>>, row |-> <<Null>>],
           [schema |-> << ColumnDef("id", DataType("Int64"), FALSE) >>,
            row |-> << Int64(5), Int64(6) >>] }

CodecInputs ==
    { [schema |-> Users, row |-> r] : r \in UsersRows }
    \cup { [schema |-> Wide, row |-> WideRow(mask)] : mask \in 0..(2 ^ WideColumns - 1) }
    \cup { [schema |-> <<>>, row |-> <<>>] }
    \cup WrongLength

CodecInit ==
    /\ \E in \in CodecInputs : cschema = in.schema /\ crow = in.row
    /\ cpc = "start"
    /\ cvalid = "none"
    /\ cenc = [panic |-> FALSE, bytes |-> <<>>]
    /\ cdec = [res |-> "none", values |-> <<>>]
    /\ PageIdle
    /\ DbStart
    /\ SqlIdle
    /\ TreeIdle

\* TableDef::insert_row(row), the validator
CodecValidate ==
    /\ cpc = "start"
    /\ cvalid' = TableDef_insert_row(cschema, crow)
    /\ cpc' = "validated"
    /\ UNCHANGED <<cschema, crow, cenc, cdec, pageVars, dbVars, sqlVars, treeVars>>

\* schema.encode_row(&row), whatever the validator said: the callers of
\* encode_row do not ask it
CodecEncode ==
    /\ cpc = "validated"
    /\ cenc' = encode_row(cschema, crow)
    /\ cpc' = IF cenc'.panic THEN "panicked" ELSE "encoded"
    /\ UNCHANGED <<cschema, crow, cvalid, cdec, pageVars, dbVars, sqlVars, treeVars>>

\* the stored bytes lose their last n bytes (a short read, a damaged file)
CodecTruncate(n) ==
    /\ cpc = "encoded"
    /\ n <= Len(cenc.bytes)
    /\ cenc' = [cenc EXCEPT !.bytes = SubSeq(cenc.bytes, 1, Len(cenc.bytes) - n)]
    /\ cpc' = "truncated"
    /\ UNCHANGED <<cschema, crow, cvalid, cdec, pageVars, dbVars, sqlVars, treeVars>>

\* schema.decode_row(&bytes)
CodecDecode ==
    /\ cpc \in {"encoded", "truncated"}
    /\ cdec' = decode_row(cschema, cenc.bytes)
    /\ cpc' = IF cdec'.res = "panic" THEN "panicked"
              ELSE IF cpc = "encoded" THEN "decoded" ELSE "decoded_truncated"
    /\ UNCHANGED <<cschema, crow, cvalid, cenc, pageVars, dbVars, sqlVars, treeVars>>

CodecNext ==
    \/ CodecValidate
    \/ CodecEncode
    \/ \E n \in 1..MaxCut : CodecTruncate(n)
    \/ CodecDecode

CodecSpec == CodecInit /\ [][CodecNext]_vars

(***************************************************************************)
(* DbSpec: a database driven through create_table, drop_table, insert_row  *)
(* and get_rows.                                                           *)
(***************************************************************************)
\* docs(id Int64 NOT NULL, body Text)
Docs ==
    << ColumnDef("id", DataType("Int64"), FALSE),
       ColumnDef("body", DataType("Text"), TRUE) >>

\* the rows offered to insert_row.  Valid: a small row, a row of 4079 encoded
\* bytes (two of them leave a page four bytes short of the second), a row of
\* 5000 encoded bytes (two of them do not share a page).  Invalid: a Null id, a
\* row of one value, a row of three values, a Bool id.
DbRows ==
    << << Int64(1), Text(<<104, 105>>) >>,
       << Int64(2), Text(Rep(4066, 97)) >>,
       << Int64(3), Text(Rep(4987, 98)) >>,
       << Null, Text(<<120>>) >>,
       << Int64(4) >>,
       << Int64(5), Null, Bool(TRUE) >>,
       << Bool(TRUE), Null >> >>

DbInit == DbStart /\ PageIdle /\ CodecIdle /\ SqlIdle /\ TreeIdle

\* db.create_table(name, schema)
CreateTable(name, schema) ==
    /\ dres.res # "panic"
    /\ created[name] < MaxCreates
    /\ tables' = [tables EXCEPT ![name] = [exists |-> TRUE, schema |-> schema]]
    /\ created' = [created EXCEPT ![name] = @ + 1]
    /\ dres' = DbResult("create_table", name, "ok", "none", 0, NoInsert, <<>>)
    /\ UNCHANGED <<buffer_pool, files, inserted, pageVars, codecVars, sqlVars, treeVars>>

\* db.drop_table(name)
DropTable(name) ==
    /\ dres.res # "panic"
    /\ tables' = [tables EXCEPT ![name] = NoTable]
    /\ dres' = IF tables[name].exists
               THEN DbResult("drop_table", name, "ok", "none", 0, NoInsert, <<>>)
               ELSE DbResult("drop_table", name, "err", "TableNotFound", 0, NoInsert, <<>>)
    /\ UNCHANGED <<buffer_pool, files, inserted, created, pageVars, codecVars, sqlVars, treeVars>>

\* db.insert_row(name, DbRows[k])
InsertRow(name, k) ==
    /\ dres.res # "panic"
    /\ Len(inserted[name]) < MaxRows
    /\ LET r == insert_row(tables[name], buffer_pool[name], files[name], DbRows[k])
       IN  /\ buffer_pool' = [buffer_pool EXCEPT ![name] = r.pages]
           /\ files' = [files EXCEPT ![name] = r.file]
           /\ inserted' = IF r.res = "ok"
                          THEN [inserted EXCEPT ![name] = Append(@, k)]
                          ELSE inserted
           /\ dres' = DbResult("insert_row", name, r.res, r.error, k, r, <<>>)
    /\ UNCHANGED <<tables, created, pageVars, codecVars, sqlVars, treeVars>>

\* db.get_rows(name)
GetRows(name) ==
    /\ dres.res # "panic"
    /\ LET r == get_rows(tables[name], buffer_pool[name], files[name])
       IN  /\ buffer_pool' = [buffer_pool EXCEPT ![name] = r.pages]
           /\ dres' = DbResult("get_rows", name, r.res, "none", 0, NoInsert, r.rows)
    /\ UNCHANGED <<tables, files, inserted, created, pageVars, codecVars, sqlVars, treeVars>>

DbNext ==
    \/ \E name \in Names : CreateTable(name, Docs)
    \/ \E name \in Names : DropTable(name)
    \/ \E name \in Names, k \in 1..Len(DbRows) : InsertRow(name, k)
    \/ \E name \in Names : GetRows(name)

DbSpec == DbInit /\ [][DbNext]_vars

(***************************************************************************)
(* QuerySpec: queries with a WHERE clause on the table docs, which holds   *)
(* up to MaxRows rows that insert_row stored.                              *)
(***************************************************************************)
\* the WHERE clauses of the queries: id / 0 = 0, id > 2, body, id >= 1
Predicates ==
    << BinaryOp(BinaryOp(Column("id"), "Divide", Literal(Int64(0))), "Equal", Literal(Int64(0))),
       BinaryOp(Column("id"), "GreaterThan", Literal(Int64(2))),
       Column("body"),
       BinaryOp(Column("id"), "GreaterThanEqual", Literal(Int64(1))),
       BinaryOp(Column("id"), "Equal", Literal(Int64(4))) >>

\* the rows stored, as indexes in DbRows: the small rows
QueryRows == {1, 4, 5, 6, 7}

\* the pages and the file of the table after one more insert_row
InsertAfter(table, before, row) ==
    CHOOSE after \in
        { [res |-> IF before.res = "ok" THEN r.res ELSE before.res,
           pages |-> r.pages, file |-> r.file] :
              r \in {insert_row(table, before.pages, before.file, row)} } : TRUE

\* the pages and the file of the table after insert_row of DbRows[ks[1]], ..
RECURSIVE AfterInserts(_, _)
AfterInserts(table, ks) ==
    IF ks = <<>> THEN [res |-> "ok", pages |-> <<>>, file |-> NoFile]
    ELSE CHOOSE after \in
             { InsertAfter(table, before, DbRows[ks[Len(ks)]]) :
                   before \in {AfterInserts(table, SubSeq(ks, 1, Len(ks) - 1))} } : TRUE

\* the database after create_table("docs", Docs) and the insert_row calls
QueryInit ==
    /\ \E n \in 0..MaxRows : \E ks \in [1..n -> QueryRows] :
       \E after \in {AfterInserts([exists |-> TRUE, schema |-> Docs], ks)} :
           /\ after.res = "ok"
           /\ tables = [name \in Names |-> [exists |-> TRUE, schema |-> Docs]]
           /\ buffer_pool = [name \in Names |-> after.pages]
           /\ files = [name \in Names |-> after.file]
           /\ inserted = [name \in Names |-> ks]
    /\ created = [name \in Names |-> 1]
    /\ dres = DbResult("new", "", "ok", "none", 0, NoInsert, <<>>)
    /\ PageIdle
    /\ CodecIdle
    /\ SqlIdle
    /\ TreeIdle

\* db.execute_query("SELECT * FROM name WHERE Predicates[k]")
ExecuteQuery(name, k) ==
    /\ dres.res # "panic"
    /\ \E r \in {execute_query(tables[name], buffer_pool[name], files[name], Predicates[k])} :
           /\ buffer_pool' = [buffer_pool EXCEPT ![name] = r.pages]
           /\ dres' = [DbResult("execute_query", name, r.res, r.error, 0, NoInsert, r.rows)
                          EXCEPT !.predicate = k]
    /\ UNCHANGED <<tables, files, inserted, created, pageVars, codecVars, sqlVars, treeVars>>

QueryNext ==
    \/ \E name \in Names, k \in 1..Len(Predicates) : ExecuteQuery(name, k)
    \/ \E name \in Names : GetRows(name)

QuerySpec == QueryInit /\ [][QueryNext]_vars

(***************************************************************************)
(* ScanSpec: full scans of the table docs, which holds up to ScanMaxRows   *)
(* rows that insert_row stored on one or two pages, one item of page 0     *)
(* possibly marked deleted by Page::delete_item.                           *)
(***************************************************************************)
ScanMaxRows == 3

\* the rows stored, as indexes in DbRows: a small row and two that fill more
\* than half a page
ScanRows == {1, 2, 3}

\* no item, or the id of the item of page 0 that is marked deleted
Tombstones == -1 .. 1

ScanInit ==
    /\ \E n \in 0..ScanMaxRows : \E ks \in [1..n -> ScanRows] : \E d \in Tombstones :
       \E after \in {AfterInserts([exists |-> TRUE, schema |-> Docs], ks)} :
           /\ after.res = "ok"
           /\ d >= 0 => (0 \in DOMAIN after.pages /\ d < after.pages[0].header.item_count)
           /\ tables = [name \in Names |-> [exists |-> TRUE, schema |-> Docs]]
           /\ buffer_pool =
                  [name \in Names |->
                      IF d < 0 THEN after.pages
                      ELSE [after.pages EXCEPT ![0] = delete_item(@, d).page]]
           /\ files = [name \in Names |-> after.file]
           /\ inserted = [name \in Names |-> ks]
    /\ created = [name \in Names |-> 1]
    /\ dres = DbResult("new", "", "ok", "none", 0, NoInsert, <<>>)
    /\ PageIdle
    /\ CodecIdle
    /\ SqlIdle
    /\ TreeIdle

ScanNext == \E name \in Names : GetRows(name)

ScanSpec == ScanInit /\ [][ScanNext]_vars

(***************************************************************************)
(* EvalSpec: an expression is evaluated on a row of the table people, as a *)
(* value by ExpressionEvaluator and as a bool by PredicateEvaluator.       *)
(***************************************************************************)
People ==
    << ColumnDef("id", DataType("Int64"), FALSE),
       ColumnDef("age", DataType("Int64"), TRUE),
       ColumnDef("score", DataType("Float64"), TRUE),
       ColumnDef("name", DataType("Text"), TRUE),
       ColumnDef("active", DataType("Bool"), TRUE) >>

\* 0.0, 0.5, 1.5, 2.0 and -0.5 as <<sign, exponent, m2, m1, m0>>
F0_0 == <<0, 0, 0, 0, 0>>

F0_5 == <<0, 1022, 0, 0, 0>>

F1_5 == <<0, 1023, 524288, 0, 0>>

F2_0 == <<0, 1024, 0, 0, 0>>

Fm0_5 == <<1, 1022, 0, 0, 0>>

\* the rows: all columns set, all nullable columns Null, negative numbers, and
\* a row shorter than the schema
PeopleRows ==
    { << Int64(1), Int64(8), Float64(F2_0), Text(<<65, 108>>), Bool(TRUE) >>,
      << Int64(2), Null, Null, Null, Null >>,
      << Int64(3), Int64(-2), Float64(Fm0_5), Text(<<>>), Bool(FALSE) >>,
      << Int64(4) >> }

Operators ==
    { "Add", "Subtract", "Multiply", "Divide", "Equal", "NotEqual", "GreaterThan",
      "LessThan", "GreaterThanEqual", "LessThanEqual", "And", "Or" }

\* the operands whose numeric values are zero or a power of two
Divisors ==
    { Literal(Int64(0)), Literal(Int64(4)), Literal(Float64(F0_0)), Literal(Float64(F0_5)),
      Literal(Text(<<65, 108>>)), Literal(Bool(TRUE)), Literal(Bool(FALSE)), Literal(Null),
      Column("age"), Column("score"), Column("name"), Column("active"), Column("missing") }

Operands == Divisors \cup { Literal(Int64(3)), Literal(Float64(F1_5)) }

\* conditions, some of which raise an error: age / 0 = 0 on a non-null age,
\* a column that does not exist, a comparison of a text with a number
Conditions ==
    { BinaryOp(BinaryOp(Column("age"), "Divide", Literal(Int64(0))), "Equal", Literal(Int64(0))),
      BinaryOp(Column("missing"), "Equal", Literal(Int64(1))),
      BinaryOp(Column("name"), "LessThan", Literal(Int64(1))),
      BinaryOp(Column("age"), "GreaterThan", Literal(Int64(4))),
      BinaryOp(Column("score"), "LessThanEqual", Column("age")),
      Is(Column("age"), "Null", FALSE),
      Column("active"), Column("name"), Literal(Bool(TRUE)), Literal(Bool(FALSE)), Literal(Null) }

\* integers at the ends of the i64 range and small ones
WideOperands ==
    { Literal(i64_MAX), Literal(I64(1, -2)), Literal(i64_MIN), Literal(I64(-1, 1)),
      Literal(Int64(0)), Literal(Int64(1)), Literal(Int64(-1)), Literal(Int64(2)) }

\* + - * of any two of them; / where the quotient is a value of the model
WideExpressions ==
    { BinaryOp(l, op, r) : l \in WideOperands, op \in {"Add", "Subtract", "Multiply"},
                           r \in WideOperands }
    \cup { BinaryOp(l, "Divide", r) : l \in WideOperands,
                                      r \in WideOperands \ {Literal(Int64(2))} }
    \cup { BinaryOp(Literal(Int64(1)), "Divide", Literal(Int64(2))),
           BinaryOp(BinaryOp(Literal(i64_MAX), "Add", Literal(Int64(1))), "LessThan",
                    Literal(Int64(0))) }

Expressions ==
    { BinaryOp(l, op, r) : l \in Operands, op \in Operators \ {"Divide"}, r \in Operands }
    \cup { BinaryOp(l, "Divide", r) : l \in Operands, r \in Divisors }
    \cup { BinaryOp(l, op, r) : l \in Conditions, op \in {"And", "Or"}, r \in Conditions }
    \cup { Is(e, predicate, is_negated) :
               e \in Operands \cup Conditions, predicate \in {"True", "False", "Null"},
               is_negated \in BOOLEAN }
    \cup Operands
    \cup WideExpressions

EvalInit ==
    /\ eexpr \in Expressions
    /\ erow \in PeopleRows
    /\ overflow_checks \in BOOLEAN
    /\ eout = NoEval
    /\ ParseIdle
    /\ AnalyzeIdle
    /\ LexIdle
    /\ PageIdle
    /\ CodecIdle
    /\ DbStart
    /\ TreeIdle

\* ExpressionEvaluator.evaluate(eexpr, erow, People)
EvaluateExpression ==
    /\ eout.mode = "none"
    /\ LET r == ExpressionEvaluator_evaluate(eexpr, erow, People)
       IN  eout' = [mode |-> "expression", res |-> r.res, error |-> r.error,
                    value |-> r.value, keep |-> FALSE, calls |-> r.calls]
    /\ UNCHANGED <<eexpr, erow, overflow_checks, parseVars, analyzeVars, lexVars, pageVars, codecVars, dbVars, treeVars>>

\* PredicateEvaluator.evaluate(eexpr, erow, People)
EvaluatePredicate ==
    /\ eout.mode = "none"
    /\ LET r == PredicateEvaluator_evaluate(eexpr, erow, People)
       IN  eout' = [mode |-> "predicate", res |-> r.res, error |-> r.error,
                    value |-> Null, keep |-> r.value, calls |-> 0]
    /\ UNCHANGED <<eexpr, erow, overflow_checks, parseVars, analyzeVars, lexVars, pageVars, codecVars, dbVars, treeVars>>

EvalNext ==
    \/ EvaluateExpression
    \/ EvaluatePredicate

EvalSpec == EvalInit /\ [][EvalNext]_vars

(***************************************************************************)
(* ParseSpec: the parser is given the tokens of a WHERE expression.        *)
(***************************************************************************)
\* the token of each binary operator
OperatorToken ==
    [ Add |-> Token("Plus"), Subtract |-> Token("Minus"), Multiply |-> Token("Asterisk"),
      Divide |-> Token("Slash"), Equal |-> Token("Equal"), NotEqual |-> Token("NotEqual"),
      GreaterThan |-> Token("GreaterThan"), LessThan |-> Token("LessThan"),
      GreaterThanEqual |-> Token("GreaterThanEqual"),
      LessThanEqual |-> Token("LessThanEqual"),
      And |-> TokenKeyword("And"), Or |-> TokenKeyword("Or") ]

A == TokenIdentifier("a")

B == TokenIdentifier("b")

C == TokenIdentifier("c")

D == TokenIdentifier("d")

\* a op b op c and a op b op c op d for all operators
PlainInputs ==
    { <<A, OperatorToken[o1], B, OperatorToken[o2], C>> : o1 \in Operators, o2 \in Operators }
    \cup { <<A, OperatorToken[o1], B, OperatorToken[o2], C, OperatorToken[o3], D>> :
               o1 \in Operators, o2 \in Operators, o3 \in Operators }

\* parentheses on either side, literals, IS, and inputs that do not parse
OtherInputs ==
    { <<Token("LeftParen"), A, OperatorToken[o1], B, Token("RightParen"), OperatorToken[o2], C>> :
          o1 \in Operators, o2 \in Operators }
    \cup { <<A, OperatorToken[o1], Token("LeftParen"), B, OperatorToken[o2], C, Token("RightParen")>> :
               o1 \in Operators, o2 \in Operators }
    \cup { <<A, TokenKeyword("Is"), TokenKeyword("Not"), TokenKeyword("Null"),
             TokenKeyword("And"), TokenLiteral("Integer", Int64(10)), Token("LessThan"), B>>,
           <<TokenKeyword("True"), TokenKeyword("Or"), TokenLiteral("Float", Float64(F1_5)),
             Token("Plus"), TokenLiteral("String", Text(<<65, 108>>))>>,
           <<Token("Asterisk"), Token("Asterisk"), Token("Asterisk")>>,
           <<A, Token("Plus")>>,
           <<A, Token("Plus"), Token("RightParen")>>,
           <<Token("LeftParen"), A, Token("Plus"), B>>,
           <<Token("LeftParen"), A, Token("Plus"), B, Token("Comma")>>,
           <<A, TokenKeyword("Is"), B>>,
           <<A, Token("Plus"), Token("Error"), B>>,
           <<A, Token("Error"), Token("Plus"), B>>,
           <<A, B>>,
           <<>> }

\* SELECT <targets> FROM t
SelectFrom ==
    { <<TokenKeyword("Select"), Token("Asterisk"), TokenKeyword("From"), TokenIdentifier("t")>>,
      <<TokenKeyword("Select"), A, Token("Comma"), B, TokenKeyword("From"),
        TokenIdentifier("t")>>,
      <<TokenKeyword("Select"), A, TokenKeyword("As"), C, Token("Comma"), B, D,
        TokenKeyword("From"), TokenIdentifier("t")>>,
      <<TokenKeyword("Select"), A, Token("Plus"), TokenLiteral("Integer", Int64(10)),
        TokenKeyword("From"), TokenIdentifier("t")>> }

\* no WHERE clause, or one
WhereClauses ==
    { <<>>,
      <<TokenKeyword("Where"), A, Token("Equal"), B>>,
      <<TokenKeyword("Where"), A, Token("Plus"), B, Token("Asterisk"), C,
        Token("GreaterThan"), D>>,
      <<TokenKeyword("Where"), A, TokenKeyword("Is"), TokenKeyword("Null")>> }

\* what the input holds after the statement
Trailers ==
    { <<>>,
      <<Token("SemiColon")>>,
      <<Token("SemiColon"), Token("SemiColon")>>,
      <<Token("SemiColon"), TokenKeyword("Select"), Token("Asterisk"), TokenKeyword("From"),
        TokenIdentifier("u")>>,
      <<TokenKeyword("Select"), Token("Asterisk"), TokenKeyword("From"), TokenIdentifier("u")>>,
      <<B>>,
      <<Token("RightParen")>>,
      <<TokenLiteral("Integer", Int64(10))>>,
      <<Token("Error")>>,
      <<Token("SemiColon"), Token("Error")>> }

\* statements with what follows them, and inputs that are no statement
StatementInputs ==
    { s \o w \o t : s \in SelectFrom, w \in WhereClauses, t \in Trailers }
    \cup { <<TokenKeyword("From")>>,
           <<A>>,
           <<Token("Error")>>,
           <<TokenKeyword("Select")>>,
           <<TokenKeyword("Select"), A>>,
           <<TokenKeyword("Select"), A, TokenKeyword("As"), TokenKeyword("From"),
             TokenIdentifier("t")>>,
           <<TokenKeyword("Select"), Token("Asterisk"), Token("Comma"), A,
             TokenKeyword("From"), TokenIdentifier("t")>>,
           <<TokenKeyword("Select"), Token("Asterisk"), TokenKeyword("From")>>,
           <<TokenKeyword("Select"), TokenKeyword("From"), TokenIdentifier("t")>>,
           <<TokenKeyword("Select"), Token("Asterisk"), TokenKeyword("From"),
             TokenIdentifier("t"), TokenKeyword("Where")>>,
           <<TokenKeyword("Select"), Token("Asterisk"), TokenKeyword("From"),
             TokenIdentifier("t"), TokenKeyword("Where"), A, Token("Plus")>> }

ParseInit ==
    /\ ptokens \in PlainInputs \cup OtherInputs \cup StatementInputs
    /\ pout = NoParse
    /\ EvalIdle
    /\ AnalyzeIdle
    /\ LexIdle
    /\ PageIdle
    /\ CodecIdle
    /\ DbStart
    /\ TreeIdle

\* self.parse_expression(0), as parse_select_statement calls it after WHERE
ParseExpression ==
    /\ pout.op = "none"
    /\ LET r == parse_expression(ptokens, 0, 0)
       IN  pout' = [NoParse EXCEPT !.op = "parse_expression", !.res = r.res,
                                   !.expr = r.expr, !.last = r.pos, !.pos = r.pos]
    /\ UNCHANGED <<ptokens, evalVars, analyzeVars, lexVars, pageVars, codecVars, dbVars, treeVars>>

\* SqlParser::new(query).parse(), ptokens being what the lexer yields for query
Parse ==
    /\ pout.op = "none"
    /\ \E r \in {parse(ptokens)} :
           pout' = [op |-> "parse", res |-> r.res, select_list |-> r.select_list,
                    table_name |-> r.table_name, has_where |-> r.has_where,
                    expr |-> r.where_clause, last |-> r.last, pos |-> r.pos]
    /\ UNCHANGED <<ptokens, evalVars, analyzeVars, lexVars, pageVars, codecVars, dbVars, treeVars>>

ParseNext ==
    \/ ParseExpression
    \/ Parse

ParseSpec == ParseInit /\ [][ParseNext]_vars

(***************************************************************************)
(* LexSpec: the lexer is drained, one call of next() after the other, on   *)
(* every query string of up to MaxInput characters of Alphabet and on two  *)
(* identifiers with an operator between them.                              *)
(***************************************************************************)
MaxInput == 3

\* a lower and an upper case letter, the operator characters, a blank, a
\* quote, a digit, the dot and a character no token starts with
Alphabet == {"a", "B", "+", "-", "/", "*", "=", "<", "!", " ", "'", "1", ".", "#"}

\* the text of the comparison and arithmetic operators
OperatorText ==
    [ Equal |-> <<"=">>, NotEqual |-> <<"!", "=">>, LessThan |-> <<"<">>,
      LessThanEqual |-> <<"<", "=">>, GreaterThan |-> <<">">>,
      GreaterThanEqual |-> <<">", "=">>, Add |-> <<"+">>, Subtract |-> <<"-">>,
      Multiply |-> <<"*">>, Divide |-> <<"/">> ]

\* a op b without and with blanks around the operator
Tight(op) == <<"a">> \o OperatorText[op] \o <<"b">>

Spaced(op) == <<"a", " ">> \o OperatorText[op] \o <<" ", "b">>

LexInputs ==
    UNION { [1..n -> Alphabet] : n \in 0..MaxInput }
    \cup { Tight(op) : op \in DOMAIN OperatorText }
    \cup { Spaced(op) : op \in DOMAIN OperatorText }
    \cup { <<"a", "s", " ", "\"", "x", "\"">>, <<"O", "r", "(", "1", "5", ")">>,
           <<"'", "a", " ", "b", "'", ";">>, <<"\"", "a">> }

LexInit ==
    /\ linput \in LexInputs
    /\ lrest = linput
    /\ ltokens = <<>>
    /\ lout = NoToken
    /\ EvalIdle
    /\ ParseIdle
    /\ AnalyzeIdle
    /\ PageIdle
    /\ CodecIdle
    /\ DbStart
    /\ TreeIdle

\* lexer.next(), until it returns None or aborts
NextToken ==
    /\ lout.res \notin {"none", "panic"}
    /\ \E r \in {Lexer_next(lrest)} :
           /\ lrest' = r.rest
           /\ ltokens' = IF r.res = "ok" THEN Append(ltokens, r.token) ELSE ltokens
           /\ lout' = [res |-> r.res, token |-> r.token]
    /\ UNCHANGED <<linput, evalVars, parseVars, analyzeVars, pageVars, codecVars, dbVars, treeVars>>

LexNext == NextToken

LexSpec == LexInit /\ [][LexNext]_vars

(***************************************************************************)
(* BTreeSpec: a tree of min_degree 3 takes up to MaxKeys distinct keys,    *)
(* each the smallest or the largest key not yet inserted or, among the     *)
(* first AnyOrder keys, any key; get and contains_key are called for every *)
(* key.  The value stored under key k is ValueOf(k).                       *)
(***************************************************************************)
MaxKeys == 18

AnyOrder == 5

TreeKeys == 1..MaxKeys

ValueOf(k) == 100 + k

BTreeInit ==
    /\ btree = NoRoot
    /\ bkeys = {}
    /\ bout = NoCall
    /\ PageIdle
    /\ CodecIdle
    /\ DbStart
    /\ SqlIdle

\* tree.insert(k, ValueOf(k))
Insert(k) ==
    /\ k \notin bkeys
    /\ \/ k \in 1..AnyOrder
       \/ \A j \in TreeKeys \ bkeys : k <= j
       \/ \A j \in TreeKeys \ bkeys : k >= j
    /\ btree' = BTree_insert(btree, k, ValueOf(k))
    /\ bkeys' = bkeys \cup {k}
    /\ bout' = [op |-> "insert", key |-> k, found |-> FALSE, value |-> 0]
    /\ UNCHANGED <<pageVars, codecVars, dbVars, sqlVars>>

\* tree.get(&k)
Get(k) ==
    /\ \E r \in {get_node(btree, k)} :
           bout' = [op |-> "get", key |-> k, found |-> r.found, value |-> r.value]
    /\ UNCHANGED <<btree, bkeys, pageVars, codecVars, dbVars, sqlVars>>

\* tree.contains_key(&k)
ContainsKey(k) ==
    /\ bout' = [op |-> "contains_key", key |-> k, found |-> contains_key_node(btree, k),
                value |-> 0]
    /\ UNCHANGED <<btree, bkeys, pageVars, codecVars, dbVars, sqlVars>>

BTreeNext ==
    \/ \E k \in TreeKeys : Insert(k)
    \/ \E k \in TreeKeys : Get(k)
    \/ \E k \in TreeKeys : ContainsKey(k)

BTreeSpec == BTreeInit /\ [][BTreeNext]_vars

(***************************************************************************)
(* AnalyzeSpec: the analyzer binds an expression to the fields of the      *)
(* table people with one more column, of type VarChar.                     *)
(***************************************************************************)
Members == People \o << ColumnDef("nick", VarChar(MaxVarChar), TRUE) >>

\* a literal and a column of each type, the NULL literal, an unknown column
TypedOperands ==
    { Literal(Int64(4)), Literal(Float64(F0_5)), Literal(Text(<<65, 108>>)),
      Literal(Bool(TRUE)), Literal(Null),
      Identifier("age"), Identifier("score"), Identifier("name"), Identifier("active"),
      Identifier("nick"), Identifier("missing") }

\* operands that are themselves operations
TypedOperations ==
    { BinaryOp(Identifier("age"), "Add", Literal(Int64(4))),
      BinaryOp(Identifier("score"), "Multiply", Identifier("age")),
      BinaryOp(Identifier("age"), "LessThan", Literal(Int64(4))),
      Is(Identifier("name"), "Null", TRUE) }

TypedExpressions ==
    { BinaryOp(l, op, r) :
          l \in TypedOperands \cup TypedOperations, op \in Operators,
          r \in TypedOperands \cup TypedOperations }
    \cup { Is(e, predicate, is_negated) :
               e \in TypedOperands \cup TypedOperations,
               predicate \in {"True", "False", "Null"}, is_negated \in BOOLEAN }
    \cup TypedOperands

AnalyzeInit ==
    /\ aexpr \in TypedExpressions
    /\ aout = NoBinding
    /\ EvalIdle
    /\ ParseIdle
    /\ LexIdle
    /\ PageIdle
    /\ CodecIdle
    /\ DbStart
    /\ TreeIdle

\* analyzer.bind_expression(aexpr, fields of the table)
BindExpression ==
    /\ aout.op = "none"
    /\ LET r == bind_expression(aexpr, ResolvedSchema(Members))
       IN  aout' = [op |-> "bind_expression", res |-> r.res, node |-> "none",
                    type |-> r.type]
    /\ UNCHANGED <<aexpr, evalVars, parseVars, lexVars, pageVars, codecVars, dbVars, treeVars>>

\* analyzer.analyze(SELECT * FROM members WHERE aexpr): the scan of the table,
\* the WHERE clause over it, the projection of every field
AnalyzeWhere ==
    /\ aout.op = "none"
    /\ \E r \in {analyze_where(aexpr, ResolvedSchema(Members))} :
           aout' = [op |-> "analyze_where", res |-> r.res, node |-> r.node,
                    type |-> r.type]
    /\ UNCHANGED <<aexpr, evalVars, parseVars, lexVars, pageVars, codecVars, dbVars, treeVars>>

AnalyzeNext ==
    \/ BindExpression
    \/ AnalyzeWhere

AnalyzeSpec == AnalyzeInit /\ [][AnalyzeNext]_vars

(***************************************************************************)
(* Claims about the page.                                                  *)
(***************************************************************************)
\* the live item pointers of the page, as item ids
LiveIds(p) == { i \in 0..(p.header.item_count - 1) : ~is_deleted(item_pointers(p)[i + 1]) }

\* C7 as stated: whatever the page type, serialising the page and reading it
\* back succeeds and yields an equal page.
C7_RoundTripAnyPageType ==
    pres.op \in {"to_bytes", "from_bytes"} =>
        /\ pres.res = "ok"
        /\ reconstructed = page

\* C7 amended: for a page of type Table or Catalog, after any add_data and
\* delete_item, Page::from_bytes(p.to_bytes()) equals p in header, item
\* pointers and data region, and every item reads back with the same bytes.
C7_PageRoundTrip ==
    (pres.op \in {"to_bytes", "from_bytes"}
        /\ page.header.page_type.kind \in {"Table", "Catalog"}) =>
        /\ pres.res = "ok"
        /\ reconstructed.header = page.header
        /\ item_pointers(reconstructed) = item_pointers(page)
        /\ reconstructed.data = page.data
        /\ \A id \in 0..MaxItems : get_item(reconstructed, id) = get_item(page, id)

\* a Catalog page holding two items, one of them deleted, was round-tripped
C7_Witness ==
    /\ pres.op = "from_bytes"
    /\ pres.res = "ok"
    /\ page.header.page_type.kind = "Catalog"
    /\ page.header.item_count = 2
    /\ LiveIds(page) = {1}

\* C8 as stated: lower + free_space() + (PAGE_SIZE - upper) == PAGE_SIZE and
\* item_count * 5 + 24 == lower after any sequence of add_data.
C8_SpaceAccounting ==
    /\ page.header.lower + free_space(page) + (PAGE_SIZE - page.header.upper) = PAGE_SIZE
    /\ page.header.item_count * 5 + 24 = page.header.lower

\* C9: every live item's byte range lies within [upper, PAGE_SIZE), the ranges
\* of two distinct live items are disjoint, and no payload byte lies in the
\* item-pointer array [24, lower).
C9_NoOverlap ==
    LET ips == item_pointers(page)
    IN  /\ \A i \in LiveIds(page) :
               /\ ips[i + 1].offset >= page.header.upper
               /\ ips[i + 1].offset + ips[i + 1].length <= PAGE_SIZE
               /\ ips[i + 1].offset >= page.header.lower
        /\ \A i, j \in LiveIds(page) :
               i # j =>
                   \/ ips[i + 1].offset + ips[i + 1].length <= ips[j + 1].offset
                   \/ ips[j + 1].offset + ips[j + 1].length <= ips[i + 1].offset

\* a page filled to the last byte: three items, two of them live, no free space
C9_Witness ==
    /\ page.header.item_count = 3
    /\ free_space(page) = 0
    /\ Cardinality(LiveIds(page)) = 2
    /\ \A i \in LiveIds(page) : item_pointers(page)[i + 1].length > 0

\* C10: a successful add_data returns the item count it found, lowers upper by
\* the payload length and raises item_count by one; afterwards get_item of the
\* new id returns the payload and get_item of every earlier live id still
\* returns the payload stored under that id.
C10_AddDataEffect ==
    (pres.op = "add_data" /\ pres.res = "ok") =>
        /\ pres.item_id = pres.before.item_count
        /\ pres.item_id = Len(added) - 1
        /\ page.header.upper = pres.before.upper - Len(Payloads[pres.payload])
        /\ page.header.item_count = pres.before.item_count + 1
        /\ get_item(page, pres.item_id) = [ok |-> TRUE, data |-> Payloads[pres.payload]]
        /\ \A id \in LiveIds(page) :
               get_item(page, id) = [ok |-> TRUE, data |-> Payloads[added[id + 1]]]

\* the third add_data succeeded on a page whose first item is deleted and whose
\* second item is live
C10_Witness ==
    /\ pres.op = "add_data"
    /\ pres.res = "ok"
    /\ pres.item_id = 2
    /\ Len(Payloads[pres.payload]) > 0
    /\ LiveIds(page) = {1, 2}

\* C11 as stated: add_data fails exactly when free_space() < len(bytes) + 5,
\* and a failed add_data leaves header and data of the page as they were.
C11_AddDataFailure ==
    [][ pres'.op = "add_data" =>
            /\ (pres'.res = "err") <=>
                    (free_space(page) < Len(Payloads[pres'.payload]) + 5)
            /\ pres'.res = "err" => page' = page ]_vars

\* C12 as stated: get_item(id) returns the item's data if and only if
\* id < item_count and the deleted flag of pointer id is clear.
C12_GetItemLiveOnly ==
    pres.op = "get_item" =>
        /\ (pres.res = "ok") <=> (pres.item_id \in LiveIds(page))
        /\ pres.res = "ok" => pres.data = Payloads[added[pres.item_id + 1]]

\* C13: delete_item(id) with id < item_count succeeds and changes nothing but
\* the deleted flag of pointer id: the header (lower, upper, item_count, hence
\* free_space()), offset and length of pointer id, every other pointer and
\* every other byte of the data region stay; with id >= item_count it fails
\* and the page stays as it was.
C13_DeleteItemFrame ==
    [][ pres'.op = "delete_item" =>
            IF pres'.item_id < page.header.item_count
            THEN LET flag == pres'.item_id * ItemPointerSIZE + 5  \* position of the flags byte
                     old == item_pointers(page)[pres'.item_id + 1]
                     new == item_pointers(page')[pres'.item_id + 1]
                 IN  /\ pres'.res = "ok"
                     /\ page'.header = page.header
                     /\ free_space(page') = free_space(page)
                     /\ is_deleted(new)
                     /\ new.offset = old.offset /\ new.length = old.length
                     /\ \A i \in 1..page.header.item_count :
                            i # pres'.item_id + 1 =>
                                item_pointers(page')[i] = item_pointers(page)[i]
                     /\ Len(page'.data) = Len(page.data)
                     /\ SubSeq(page'.data, 1, flag - 1) = SubSeq(page.data, 1, flag - 1)
                     /\ SubSeq(page'.data, flag + 1, Len(page.data))
                            = SubSeq(page.data, flag + 1, Len(page.data))
            ELSE pres'.res = "err" /\ page' = page ]_vars

\* the middle one of three items, a non-empty one, was deleted and its two
\* neighbours are live
C13_Witness ==
    /\ pres.op = "delete_item"
    /\ pres.res = "ok"
    /\ pres.item_id = 1
    /\ page.header.item_count = 3
    /\ LiveIds(page) = {0, 2}
    /\ item_pointers(page)[2].length > 0

(***************************************************************************)
(* Claims about the row codec.                                             *)
(***************************************************************************)
\* C5: a row that passes insert-time validation against its schema is encoded
\* without a panic, and decoding the encoding succeeds and returns the same
\* values in the same order (floats compared bit for bit).
C5_RowRoundTrip ==
    cvalid = "ok" =>
        /\ cpc # "panicked"
        /\ cpc \in {"encoded", "decoded"} => ~cenc.panic
        /\ cpc = "decoded" => cdec.res = "ok" /\ cdec.values = crow

\* a validated row with a Null, a negative integer, a text at the VarChar limit,
\* a NaN and a multi-byte text has made the round trip
C5_Witness ==
    /\ cpc = "decoded"
    /\ cvalid = "ok"
    /\ cschema = Users
    /\ crow = << Int64(-2), Text(Rep(MaxVarChar, 66)), Null,
                 Float64(<<0, 2047, 524288, 0, 1>>), Text(<<195, 169, 226, 130, 172>>), Null >>
    /\ cdec.res = "ok"
    /\ cdec.values = crow

\* bit i of a bitmap, the lowest bit of byte i / 8 being bit 8 * (i / 8)
BitSet(bytes, i) == (bytes[(i \div 8) + 1] \div (2 ^ (i % 8))) % 2 = 1

\* the number of payload bytes of a non-null value
PayloadSize(value) ==
    IF value.tag = "Bool" THEN 1
    ELSE IF value.tag = "Text" THEN 4 + Len(value.s)
    ELSE 8

RECURSIVE SumPayload(_, _)
SumPayload(row, n) ==
    IF n = 0 THEN 0
    ELSE SumPayload(row, n - 1) + (IF row[n].tag = "Null" THEN 0 ELSE PayloadSize(row[n]))

\* C6: an encoding of a row against C columns starts with ceil(C/8) bitmap
\* bytes in which bit i, counted from the low end of byte i/8, is set exactly
\* when row[i] is Null; the rest is the payload of the non-null values alone;
\* and a successful decoding has Null at position i exactly when bit i of the
\* bytes it read is set.
C6_NullBitmap ==
    LET nbytes == (Len(cschema) + 7) \div 8
        bytes == cenc.bytes
        zipped == IF Len(crow) < Len(cschema) THEN Len(crow) ELSE Len(cschema)
    IN  /\ cpc \in {"encoded", "decoded"} =>
            /\ Len(bytes) = nbytes + SumPayload(crow, zipped)
            /\ \A i \in 0..(8 * nbytes - 1) :
                  BitSet(bytes, i) <=> (i < Len(crow) /\ crow[i + 1] = Null)
        /\ (cpc \in {"decoded", "decoded_truncated"} /\ cdec.res = "ok") =>
            /\ Len(cdec.values) = Len(cschema)
            /\ \A i \in 0..(Len(cschema) - 1) :
                  (cdec.values[i + 1] = Null) <=> BitSet(bytes, i)

\* a row of the wide schema with Null in column 0, in column 7 and in column 8
\* (the first bit of the second bitmap byte) and values elsewhere was encoded
\* and decoded
C6_Witness ==
    /\ cpc = "decoded"
    /\ cschema = Wide
    /\ crow = WideRow(1 + 128 + 256)
    /\ cdec.res = "ok"
    /\ cdec.values[1] = Null /\ cdec.values[2] # Null /\ cdec.values[9] = Null
    /\ SubSeq(cenc.bytes, 1, 2) = <<129, 1>>

(***************************************************************************)
(* Claims about the database facade and the buffer pool.                   *)
(***************************************************************************)
\* the bag of the elements of a sequence
BagOfSeq(seq) ==
    [x \in {seq[i] : i \in DOMAIN seq} |-> Cardinality({i \in DOMAIN seq : seq[i] = x})]

\* the rows that insert_row stored in the table, in the order of the calls
InsertedRows(name) == [i \in DOMAIN inserted[name] |-> DbRows[inserted[name][i]]]

\* C1 as stated: get_rows on a table that was created once, after any sequence
\* of successful insert_row calls, succeeds and returns exactly the multiset of
\* the rows inserted.
C1_ScanReturnsInserted ==
    (dres.op = "get_rows" /\ tables[dres.name].exists /\ created[dres.name] = 1) =>
        /\ dres.res = "ok"
        /\ BagOfSeq(dres.rows) = BagOfSeq(InsertedRows(dres.name))

\* C2 as stated: the page get_free_page returns has free_space() of at least
\* needed_bytes + 5, add_data of the payload on it succeeds, and a page it
\* creates is an empty Table page.
C2_FreePageHasRoom ==
    (dres.op = "insert_row" /\ dres.got_page) =>
        /\ dres.free >= dres.needed + 5
        /\ dres.error # "NotEnoughSpace"
        /\ dres.created => dres.free = PAGE_SIZE - PageHeaderSIZE

\* C3 as stated: insert_row answers a row that fails the insert-time validator
\* with a TypeMismatch error and stores nothing, and every row a scan returns
\* passes the validator.
C3_InsertValidates ==
    /\ (/\ dres.op = "insert_row"
        /\ tables[dres.name].exists
        /\ TableDef_insert_row(tables[dres.name].schema, DbRows[dres.row]) # "ok") =>
            /\ dres.res = "err"
            /\ dres.error = "TypeMismatch"
            /\ ~dres.got_page
    /\ (dres.op = "get_rows" /\ dres.res = "ok" /\ tables[dres.name].exists) =>
            \A i \in DOMAIN dres.rows :
                TableDef_insert_row(tables[dres.name].schema, dres.rows[i]) = "ok"

\* C4 as stated: insert_row and get_rows on a name that is not in the catalog
\* return the TableNotFound error, do not panic, and leave the catalog, the
\* buffer pool and the files as they were.
C4_UnknownTable ==
    [][ (dres'.op \in {"insert_row", "get_rows"} /\ ~tables[dres'.name].exists) =>
            /\ dres'.res = "err"
            /\ dres'.error = "TableNotFound"
            /\ UNCHANGED <<tables, buffer_pool, files>> ]_vars

\* the rows a scan of the table returns
ScannedRows(name) == get_rows(tables[name], buffer_pool[name], files[name])

\* C14: when the WHERE predicate raises an error on a scanned row,
\* execute_query returns an error and no rows.
C14_WhereErrorSurfaces ==
    [][ dres'.op = "execute_query" =>
            \A scan \in {ScannedRows(dres'.name)} :
                (/\ tables[dres'.name].exists
                 /\ scan.res = "ok"
                 /\ \E i \in 1..Len(scan.rows) :
                        PredicateEvaluator_evaluate(Predicates[dres'.predicate], scan.rows[i],
                                                    tables[dres'.name].schema).res = "err")
                => (dres'.res = "err" /\ dres'.rows = <<>>) ]_vars

(***************************************************************************)
(* Claims about the evaluator.                                             *)
(***************************************************************************)
Comparisons ==
    { "Equal", "NotEqual", "LessThan", "LessThanEqual", "GreaterThan", "GreaterThanEqual" }

\* the value of an operand of the expression under evaluation
OperandValue(e) == ExpressionEvaluator_evaluate(e, erow, People)

\* C15: a comparison (= != < <= > >=) one of whose operands is Null evaluates
\* to Null.
C15_NullComparesToNull ==
    (/\ eout.mode = "expression"
     /\ eexpr.kind = "BinaryOp"
     /\ eexpr.op \in Comparisons
     /\ OperandValue(eexpr.left).res = "ok"
     /\ OperandValue(eexpr.right).res = "ok"
     /\ Null \in {OperandValue(eexpr.left).value, OperandValue(eexpr.right).value})
    => (eout.res = "ok" /\ eout.value = Null)

\* C16: L AND R with L false or Null is false, and L OR R with L true is true,
\* in both cases without an evaluation of R: the calls of evaluate are those
\* of L and the one of the expression itself, and an error of R is not raised.
C16_ShortCircuit ==
    (/\ eout.mode = "expression"
     /\ eexpr.kind = "BinaryOp"
     /\ OperandValue(eexpr.left).res = "ok")
    => /\ (eexpr.op = "And" /\ OperandValue(eexpr.left).value \in {Bool(FALSE), Null})
            => /\ eout.res = "ok"
               /\ eout.value = Bool(FALSE)
               /\ eout.calls = 1 + OperandValue(eexpr.left).calls
       /\ (eexpr.op = "Or" /\ OperandValue(eexpr.left).value = Bool(TRUE))
            => /\ eout.res = "ok"
               /\ eout.value = Bool(TRUE)
               /\ eout.calls = 1 + OperandValue(eexpr.left).calls

\* `age > 4 AND age / 0 = 0` was evaluated on a row whose age is -2: the left
\* operand is false and the right one divides by zero
C16_Witness ==
    /\ eout.mode = "expression"
    /\ eexpr.kind = "BinaryOp"
    /\ eexpr.op = "And"
    /\ eexpr.left = BinaryOp(Column("age"), "GreaterThan", Literal(Int64(4)))
    /\ OperandValue(eexpr.left).value = Bool(FALSE)
    /\ OperandValue(eexpr.right).res = "err"
    /\ OperandValue(eexpr.right).error = "Division by zero"
    /\ eout.res = "ok"

\* C17: the predicate of an expression that evaluates to a value is a bool and
\* never an error: b for Bool(b), false for Null and for every other value.
C17_PredicateOfAnyValue ==
    (eout.mode = "predicate" /\ OperandValue(eexpr).res = "ok")
    => /\ eout.res = "ok"
       /\ eout.keep = (OperandValue(eexpr).value = Bool(TRUE))

(***************************************************************************)
(* Claims about the parser.                                                *)
(***************************************************************************)
\* the precedence levels: OR 2 < AND 3 < comparisons 5 < additive 7 <
\* multiplicative 10
Level(op) ==
    IF op = "Or" THEN 2
    ELSE IF op = "And" THEN 3
    ELSE IF op \in Comparisons THEN 5
    ELSE IF op \in {"Add", "Subtract"} THEN 7
    ELSE 10

\* the tokens of an expression of identifiers and operators, left to right
RECURSIVE TokensOf(_)
TokensOf(e) ==
    IF e.kind = "BinaryOp"
    THEN TokensOf(e.left) \o <<OperatorToken[e.op]>> \o TokensOf(e.right)
    ELSE <<TokenIdentifier(e.name)>>

\* every operator of the expression has, as left operand, nothing of a lower
\* level and, as right operand, nothing of a lower or the same level
RECURSIVE Grouped(_)
Grouped(e) ==
    e.kind = "BinaryOp" =>
        /\ e.left.kind = "BinaryOp" => Level(e.left.op) >= Level(e.op)
        /\ e.right.kind = "BinaryOp" => Level(e.right.op) > Level(e.op)
        /\ Grouped(e.left)
        /\ Grouped(e.right)

\* C18: a + b * c parses to Add(a, Mul(b, c)) and a * b + c to
\* Add(Mul(a, b), c); every sequence of operands and operators without
\* parentheses parses to the expression with these operands and operators in
\* this order in which an operator of a higher level groups before one of a
\* lower level and operators of one level group left to right.
C18_Precedence ==
    (pout.op = "parse_expression" /\ ptokens \in PlainInputs)
    => /\ pout.res = "ok"
       /\ pout.pos = Len(ptokens)
       /\ TokensOf(pout.expr) = ptokens
       /\ Grouped(pout.expr)
       /\ ptokens = <<A, Token("Plus"), B, Token("Asterisk"), C>>
            => pout.expr = BinaryOp(Identifier("a"), "Add",
                                    BinaryOp(Identifier("b"), "Multiply", Identifier("c")))
       /\ ptokens = <<A, Token("Asterisk"), B, Token("Plus"), C>>
            => pout.expr = BinaryOp(BinaryOp(Identifier("a"), "Multiply", Identifier("b")),
                                    "Add", Identifier("c"))

\* a < b + c * d was parsed to LessThan(a, Add(b, Mul(c, d)))
C18_Witness ==
    /\ pout.op = "parse_expression"
    /\ ptokens = <<A, Token("LessThan"), B, Token("Plus"), C, Token("Asterisk"), D>>
    /\ pout.res = "ok"
    /\ pout.expr = BinaryOp(Identifier("a"), "LessThan",
                            BinaryOp(Identifier("b"), "Add",
                                     BinaryOp(Identifier("c"), "Multiply", Identifier("d"))))

(***************************************************************************)
(* Claims about the analyzer.                                              *)
(***************************************************************************)
\* the type of an operand of the expression under analysis
OperandType(e) == bind_expression(e, ResolvedSchema(Members))

\* both operands of the operation under analysis have a type
OperandsTyped ==
    /\ aout.op = "bind_expression"
    /\ aexpr.kind = "BinaryOp"
    /\ OperandType(aexpr.left).res = "ok"
    /\ OperandType(aexpr.right).res = "ok"

\* C19: + - * / type-check exactly when both operand types are Int64 or
\* Float64; the result is Float64 if either is Float64 and Int64 otherwise; a
\* Text or Bool operand is a type error.
C19_ArithmeticTyping ==
    (OperandsTyped /\ aexpr.op \in {"Add", "Subtract", "Multiply", "Divide"})
    => IF {OperandType(aexpr.left).type, OperandType(aexpr.right).type}
              \subseteq {"Int64", "Float64"}
       THEN /\ aout.res = "ok"
            /\ aout.type = IF "Float64" \in {OperandType(aexpr.left).type,
                                             OperandType(aexpr.right).type}
                           THEN "Float64" ELSE "Int64"
       ELSE aout.res = "err"

\* C20: = != < <= > >= type-check, with result Bool, exactly when the operand
\* types are identical or are Int64 and Float64 in either order; a Text
\* operand against Int64, Float64 or Bool is rejected.
C20_ComparisonTyping ==
    (OperandsTyped /\ aexpr.op \in Comparisons)
    => IF \/ OperandType(aexpr.left).type = OperandType(aexpr.right).type
          \/ {OperandType(aexpr.left).type, OperandType(aexpr.right).type}
                 = {"Int64", "Float64"}
       THEN aout.res = "ok" /\ aout.type = "Bool"
       ELSE aout.res = "err"

\* C21: the analyzer produces a Filter node only for a WHERE expression of
\* type Bool; a WHERE expression of another type is rejected.
C21_FilterIsBool ==
    (aout.op = "analyze_where" /\ aout.node = "Filter") => aout.type = "Bool"

\* C22: parse succeeds only when nothing but one optional ; follows the
\* SELECT statement; any other remaining token makes it fail.
C22_OneStatement ==
    (pout.op = "parse" /\ pout.res = "ok")
    => SubSeq(ptokens, pout.last + 1, Len(ptokens)) \in {<<>>, <<Token("SemiColon")>>}

\* C23: after a successful insert_row the file of the table holds, for every
\* page k the table has in the buffer pool, the encoding of that page at
\* [k * PAGE_SIZE, (k + 1) * PAGE_SIZE): save_page wrote one page and left
\* the bytes of the others as they were.
C23_FileHoldsPages ==
    (dres.op = "insert_row" /\ dres.res = "ok")
    => \A k \in DOMAIN buffer_pool[dres.name] :
           /\ Len(files[dres.name].bytes) >= (k + 1) * PAGE_SIZE
           /\ Slice(files[dres.name].bytes, k * PAGE_SIZE, (k + 1) * PAGE_SIZE)
                  = Page_to_bytes(buffer_pool[dres.name][k])

\* the rows of the items of page p from item id i on whose pointer does not
\* have the deleted bit, in item id order
RECURSIVE LiveRows(_, _, _)
LiveRows(schema, p, i) ==
    IF i >= p.header.item_count THEN <<>>
    ELSE (IF ItemPointer_from_bytes(
                 Slice(p.data, i * ItemPointerSIZE, (i + 1) * ItemPointerSIZE)).flags % 2 = 1
          THEN <<>>
          ELSE <<decode_row(schema, get_item(p, i).data).values>>)
         \o LiveRows(schema, p, i + 1)

\* the live rows of the pages from page id k on, in page id order
RECURSIVE RowsInOrder(_, _, _)
RowsInOrder(schema, pages, k) ==
    IF k \notin DOMAIN pages THEN <<>>
    ELSE LiveRows(schema, pages[k], 0) \o RowsInOrder(schema, pages, k + 1)

\* C24: a full scan returns the rows of the items that are not marked
\* deleted, by ascending page id and within a page by ascending item id, and
\* a second scan of the same state returns the same sequence.
C24_ScanOrder ==
    (dres.op = "get_rows" /\ dres.res = "ok")
    => /\ dres.rows = RowsInOrder(tables[dres.name].schema, buffer_pool[dres.name], 0)
       /\ \A again \in {ScannedRows(dres.name)} :
              again.res = "ok" /\ again.rows = dres.rows

\* a scan of two pages, page 0 holding a deleted item before a live one
C24_Witness ==
    /\ dres.op = "get_rows"
    /\ dres.res = "ok"
    /\ DOMAIN buffer_pool[dres.name] = {0, 1}
    /\ buffer_pool[dres.name][0].header.item_count = 2
    /\ is_deleted(item_pointers(buffer_pool[dres.name][0])[1])
    /\ Len(dres.rows) = 2
    /\ dres.rows[1] = DbRows[1]

\* C25: an identifier, one of = != < <= > >= + - * / and an identifier lex
\* as identifier, operator, identifier, with or without blanks around the
\* operator.
C25_OperatorsAreTokens ==
    \A op \in DOMAIN OperatorText :
        (lout.res = "none" /\ linput \in {Tight(op), Spaced(op)})
        => ltokens = <<TokenIdentifier("a"), OperatorToken[op], TokenIdentifier("b")>>

\* C29: no call of next() aborts, and a call that returns a token or a lex
\* error leaves less of the input than it found.
C29_NextConsumes ==
    [][ /\ lout'.res # "panic"
        /\ lout'.res \in {"ok", "err"} => Len(lrest') < Len(lrest) ]_vars

\* C26: a WHERE clause that is one comparison (= != < <= > >=) does not keep
\* a row on which one of its operands is Null.
C26_NullRowNotKept ==
    (/\ eout.mode = "predicate"
     /\ eexpr.kind = "BinaryOp"
     /\ eexpr.op \in Comparisons
     /\ OperandValue(eexpr.left).res = "ok"
     /\ OperandValue(eexpr.right).res = "ok"
     /\ Null \in {OperandValue(eexpr.left).value, OperandValue(eexpr.right).value})
    => ~(eout.res = "ok" /\ eout.keep)

\* C27: get and contains_key find exactly the keys that were inserted, the
\* keys that a split made separators included.
C27_InsertedKeysFound ==
    bout.op \in {"get", "contains_key"} => (bout.found <=> bout.key \in bkeys)

\* C28: + - * / of two Int64 values returns an Int64 value or an error and
\* never aborts, also where the mathematical result is not an i64.
C28_IntegerArithmeticTotal ==
    (/\ eout.mode = "expression"
     /\ eexpr.kind = "BinaryOp"
     /\ eexpr.op \in {"Add", "Subtract", "Multiply", "Divide"}
     /\ eexpr.left.kind = "Literal" /\ eexpr.left.value.tag = "Int64"
     /\ eexpr.right.kind = "Literal" /\ eexpr.right.value.tag = "Int64")
    => (eout.res = "err" \/ (eout.res = "ok" /\ eout.value.tag = "Int64"))

\* C30: a table that create_table has just made holds no rows: get_rows on it,
\* before any insert_row on the new table, returns zero rows, also when rows
\* were inserted under that name before a drop_table or an earlier create_table.
C30_CreatedTableIsEmpty ==
    dres.op = "create_table"
    => \A scan \in {ScannedRows(dres.name)} : scan.res = "ok" /\ scan.rows = <<>>

====
